---------------------------- MODULE Spec2Model ----------------------------
(***************************************************************************)
(* A model of pipelinescope's call-graph profiler                          *)
(* (src/pipelinescope/core/profiler.py, stats.py).                         *)
(*                                                                         *)
(* The profiled program is the interpreter's frame stack `frames`: a call  *)
(* pushes a frame, a return pops the top one, and while the profile hook   *)
(* is installed each of the two fires Profiler._profile_callback.          *)
(* Profiler.start and Profiler.stop are functions of the program as well:  *)
(* calling them pushes a frame (module pipelinescope.core.profiler), their *)
(* bodies are the actions Start and Stop, and their returns are return     *)
(* events like any other.                                                  *)
(*                                                                         *)
(* Time is time.time() in whole milliseconds, advanced by Tick.            *)
(* The resource fields of FunctionStats are written by the handlers but    *)
(* read by none of the timing, edge or stack logic; the tracer part of the *)
(* model leaves them at their defaults.                                    *)
(*                                                                         *)
(* The functions of core/extrapolation.py and reporting/analyzer.py are    *)
(* operators; they are applied to `input` and give `output` in             *)
(* specifications of their own (SpecExtrapolate, SpecHotspots).            *)
(***************************************************************************)
EXTENDS Integers, Sequences, FiniteSets, TLC

\* ------------------------------------------------------------ bounds
\* Largest value of the clock (ms).
MaxTime == 2
\* Largest number of function calls the program makes (start/stop included).
MaxCalls == 4
\* Largest depth of the interpreter's frame stack (the entry point included).
MaxDepth == 3
\* Largest clock value and recursion depth of the recursion scenario.
MaxRecTime == 3
MaxRecDepth == 3
\* Largest clock value of the A/B/C end-to-end scenario and of the scenario of
\* two sessions.
MaxScenarioTime == 2
\* Largest call_count, sample_size and expected_size given to extrapolate, and
\* largest self_time_ms of a function where several are given.
MaxCount == 11
MaxSample == 11
MaxExpected == 15
MaxSelf == 2
\* Largest number of calls of the program that calls one function in a loop,
\* and the largest number of calls of a second function among them.
MaxLoopCalls == 204
MaxOther == 2
\* Largest number of snapshots taken from one monitor.
MaxSnapshots == 2
\* Largest projected_time_ms of a function in a run given to get_change.
MaxMs == 22
\* Sessions of the PipelineProfiler, calls of a user function in one session
\* and calls of start() during one session.
MaxSessions == 2
MaxEntryCalls == 2
MaxRestarts == 1
\* Seconds that pass in a run of the PipelineProfiler.
MaxClock == 1
\* Number of functions and largest top_n given to extract_hotspots.
MaxFuncs == 5
MaxTopN == 2

VARIABLES
    config,          \* Profiler.config: ignore_modules, collapse_stdlib
    active,          \* Profiler.active
    hook,            \* TRUE iff sys.setprofile holds _profile_callback
    function_stats,  \* Profiler.function_stats: FunctionKey -> FunctionStats
    call_edges,      \* Profiler.call_edges: <<caller, callee>> -> CallEdge
    call_stack,      \* Profiler.call_stack: Seq of <<func_key, start_time>>
    func_key_cache,  \* Profiler._func_key_cache
    start_time,      \* Profiler.start_time
    end_time,        \* Profiler.end_time
    result,          \* what the last call of stop() returned
    kept,            \* the first ProfilingResult returned, held by the caller
    keptShared,      \* keys whose objects `kept` shares with the tracer's maps
    now,             \* time.time(), in ms
    frames,          \* the interpreter's frame stack (the running program)
    ncalls,          \* number of calls the program has made
    scenario,        \* which program runs: "any", "rec", "abc", "two", "open",
                     \* "loop", "deep"
    input,           \* the arguments of the function applied (pure functions)
    output,          \* what it returned
    session,         \* history: number of effective start() calls
    gTotal,          \* history: per identity, sum of (return - call) time
    gCalls,          \* history: per identity, number of CALL events
    gEdgeCalls,      \* history: per <<parent, callee>>, number of CALL events
    gRootCalls,      \* history: per identity, CALL events with no parent
    gEdgeTime,       \* history: per <<stack top at call, callee>>, sum of
                     \* (return - call) time of the callee's invocations
    gIgnCall,        \* history: a CALL of an ignored function was seen
    gResults,        \* history: number of stop() calls that returned a result
    gFresh,          \* a tracer constructed at start(), fed the same events
    last,            \* history: the last step of the program or the profiler
    entry,           \* entrypoint._profiler, the PipelineProfiler of the module
    pair             \* a process with two Profiler instances and its hook

vars == <<config, active, hook, function_stats, call_edges, call_stack,
          func_key_cache, start_time, end_time, result, kept, keptShared, now,
          frames, ncalls, scenario, input, output, session, gTotal, gCalls,
          gEdgeCalls, gRootCalls, gEdgeTime, gIgnCall, gResults, gFresh, last,
          entry, pair>>

\* The variables of the tracer and of the program it traces.
tracerVars == <<config, active, hook, function_stats, call_edges, call_stack,
                func_key_cache, start_time, end_time, result, kept, keptShared,
                now, frames, ncalls, session, gTotal, gCalls, gEdgeCalls,
                gRootCalls, gEdgeTime, gIgnCall, gResults, gFresh, last>>

\* ------------------------------------------------------------ strings
\* Python's `sub in s`.
Contains(sub, s) ==
    \E i \in 1..(Len(s) - Len(sub) + 1) : SubSeq(s, i, i + Len(sub) - 1) = sub

\* Python's s.startswith(prefix).
StartsWith(s, prefix) ==
    Len(s) >= Len(prefix) /\ SubSeq(s, 1, Len(prefix)) = prefix

\* The index of the first / the last occurrence of the character ch in s,
\* 0 if there is none.
FirstIndexOf(ch, s) ==
    IF \E i \in 1..Len(s) : SubSeq(s, i, i) = ch
    THEN CHOOSE i \in 1..Len(s) :
             /\ SubSeq(s, i, i) = ch
             /\ \A j \in 1..(i - 1) : SubSeq(s, j, j) /= ch
    ELSE 0

LastIndexOf(ch, s) ==
    IF \E i \in 1..Len(s) : SubSeq(s, i, i) = ch
    THEN CHOOSE i \in 1..Len(s) :
             /\ SubSeq(s, i, i) = ch
             /\ \A j \in (i + 1)..Len(s) : SubSeq(s, j, j) /= ch
    ELSE 0

\* Python's s.split(ch)[0], s.rsplit(ch, 1)[0] and s.rsplit(ch, 1)[-1].
SplitFirst(s, ch) ==
    IF FirstIndexOf(ch, s) = 0 THEN s ELSE SubSeq(s, 1, FirstIndexOf(ch, s) - 1)
RSplitHead(s, ch) ==
    IF LastIndexOf(ch, s) = 0 THEN s ELSE SubSeq(s, 1, LastIndexOf(ch, s) - 1)
RSplitTail(s, ch) == SubSeq(s, LastIndexOf(ch, s) + 1, Len(s))

\* Python's `not s or not s.strip()`.
IsBlank(s) == \A i \in 1..Len(s) : SubSeq(s, i, i) \in {" ", "\t", "\n"}

\* ------------------------------------------------------------ the program
NoClass == "None"
NoTime == -1

\* The code objects of the program: the entry point, three user functions,
\* a function of an installed dependency, and the profiler's own start and
\* stop.
UserCodes == {"main", "A", "B", "C", "V"}
ApiCodes == {"start", "stop"}

\* One more code object, TestClass.method, in two kinds of call: on a
\* TestClass instance and on an instance of a subclass that inherits it.
MethodCodes == {"method@TestClass", "method@SubClass"}

\* And a function of the standard library written in Python, json.dumps.
StdlibCodes == {"dumps"}
Codes == UserCodes \cup ApiCodes \cup MethodCodes \cup StdlibCodes

CodeFile(c) ==
    CASE c = "main" -> "/w/main.py"
      [] c \in {"A", "B", "C"} \cup MethodCodes -> "/w/app.py"
      [] c = "V" -> "/w/venv/lib/dep.py"
      [] c = "dumps" -> "/usr/lib/python3.11/json/__init__.py"
      [] OTHER -> "/w/pipelinescope/core/profiler.py"

CodeModule(c) ==
    CASE c = "main" -> "__main__"
      [] c \in {"A", "B", "C"} \cup MethodCodes -> "app"
      [] c = "V" -> "dep"
      [] c = "dumps" -> "json"
      [] OTHER -> "pipelinescope.core.profiler"

CodeLine(c) ==
    CASE c = "main" -> 16
      [] c = "A" -> 1
      [] c = "B" -> 5
      [] c = "C" -> 9
      [] c = "V" -> 1
      [] c = "start" -> 38
      [] c = "stop" -> 47
      [] c = "dumps" -> 183
      [] OTHER -> 13

CodeName(c) == IF c \in MethodCodes THEN "method" ELSE c

\* The class of the receiver bound to `self` in a frame of c, if any.
CodeReceiver(c) ==
    CASE c \in ApiCodes -> "Profiler"
      [] c = "method@TestClass" -> "TestClass"
      [] c = "method@SubClass" -> "SubClass"
      [] OTHER -> NoClass

\* A frame as the callback sees it.
Frame(c) ==
    [f_code |-> [co_filename |-> CodeFile(c), co_name |-> CodeName(c),
                 co_firstlineno |-> CodeLine(c)],
     f_globals_name |-> CodeModule(c),
     self_class |-> CodeReceiver(c)]

\* ------------------------------------------------------------ numbers
\* Times are exact fractions num/den in lowest terms, den > 0.
RECURSIVE GCD(_, _)
GCD(a, b) == IF b = 0 THEN a ELSE GCD(b, a % b)

Abs(n) == IF n < 0 THEN -n ELSE n

Rat(n, d) ==
    LET g == GCD(Abs(n), d) IN [num |-> n \div g, den |-> d \div g]

RatOf(n) == Rat(n, 1)
RatAdd(a, b) == Rat(a.num * b.den + b.num * a.den, a.den * b.den)
RatMul(a, b) == Rat(a.num * b.num, a.den * b.den)
RatNeg(a) == Rat(-a.num, a.den)
RatLess(a, b) == a.num * b.den < b.num * a.den
\* a / b for b > 0
RatDiv(a, b) == Rat(a.num * b.den, a.den * b.num)

\* sum of f[x] over x in S, for fractions
RECURSIVE RatSumOver(_, _)
RatSumOver(S, f) ==
    IF S = {} THEN RatOf(0)
    ELSE LET x == CHOOSE y \in S : TRUE IN RatAdd(f[x], RatSumOver(S \ {x}, f))

\* ------------------------------------------------------------ stats.py
FunctionKey(module, filename, funcname, lineno, classname) ==
    [module |-> module, filename |-> filename, funcname |-> funcname,
     lineno |-> lineno, classname |-> classname]

\* stats.py, lines 9-61
STDLIB_MODULES ==
    {"random", "threading", "json", "csv", "os", "sys", "time", "datetime",
     "collections", "re", "math", "itertools", "functools", "io", "pathlib",
     "logging", "argparse", "subprocess", "multiprocessing", "queue", "heapq",
     "bisect", "array", "copy", "pickle", "shelve", "sqlite3", "zlib", "gzip",
     "bz2", "zipfile", "tarfile", "hashlib", "hmac", "secrets", "uuid",
     "struct", "codecs", "base64", "binascii"}

STDLIB_INDICATORS == {"/lib/python", "\\lib\\python", "site-packages"}

\* FunctionKey._check_stdlib, the value of FunctionKey.is_stdlib
CheckStdlib(func_key) ==
    \/ Contains("<", func_key.filename) \/ Contains(">", func_key.filename)
    \/ SplitFirst(func_key.module, ".") \in STDLIB_MODULES
    \/ \E indicator \in STDLIB_INDICATORS : Contains(indicator, func_key.filename)

\* FunctionKey.stage
Stage(func_key) ==
    IF func_key.filename /= ""
    THEN RSplitTail(RSplitTail(RSplitHead(func_key.filename, "."), "/"), "\\")
    ELSE IF func_key.module /= "" THEN func_key.module ELSE "unknown"

FunctionStats(key) ==
    [key |-> key, call_count |-> 0, total_time_ms |-> 0, self_time_ms |-> 0,
     first_call_time |-> NoTime, active_calls |-> 0,
     avg_cpu_percent |-> RatOf(0), peak_memory_mb |-> 0,
     avg_gpu_utilization |-> <<>>, peak_gpu_memory_mb |-> <<>>,
     sample_counter |-> 0, resource_samples |-> <<>>]

ResourceSnapshot(cpu_percent, memory_mb, gpu_utilization, gpu_memory_mb) ==
    [cpu_percent |-> cpu_percent, memory_mb |-> memory_mb,
     gpu_utilization |-> gpu_utilization, gpu_memory_mb |-> gpu_memory_mb]

CallEdge(caller, callee) ==
    [caller |-> caller, callee |-> callee, call_count |-> 0,
     total_time_ms |-> 0]

NoResult == [kind |-> "None"]

ProfilingResult(fs, ce, runtime, st, et) ==
    [kind |-> "ProfilingResult", function_stats |-> fs, call_edges |-> ce,
     total_runtime_ms |-> runtime, start_timestamp |-> st,
     end_timestamp |-> et]

\* ------------------------------------------------------------ config.py
DefaultConfig ==
    [ignore_modules |-> {"venv", "site-packages", ".venv", "env"},
     collapse_stdlib |-> TRUE]

Configs == {DefaultConfig, [ignore_modules |-> {}, collapse_stdlib |-> FALSE]}

\* ------------------------------------------------------------ resource_monitor.py
\* What the host gives a monitor: whether psutil.Process() succeeds and how
\* many devices GPUtil.getGPUs() returns (ProbeRaises: it raises).
ProbeRaises == -1
MaxDevices == 1
Probes == [process_ok : BOOLEAN, gpus : {ProbeRaises} \cup (0..MaxDevices)]

\* ResourceMonitor.__init__
NewMonitor(enable_cpu, enable_gpu, probe) ==
    [enable_cpu |-> enable_cpu /\ probe.process_ok,
     enable_gpu |-> enable_gpu,
     gpu_available |-> enable_gpu /\ probe.gpus > 0,
     gpu_devices |-> IF enable_gpu /\ probe.gpus > 0 THEN probe.gpus ELSE 0]

\* What the host gives one call of snapshot(): the CPU percentage, the
\* resident memory in whole MB (rss / 2^20 formatted with three decimals is
\* that number), per device the load (0 or 1, of 1) and the memory used; and
\* which of the four readings raises, if one does.
Readings ==
    [fail : {"none", "cpu_percent", "memory_info", "load", "memoryUsed"},
     cpu : {0, 3}, rss_mb : {1, 2},
     load : [1..MaxDevices -> {1}], used : [1..MaxDevices -> {4, 5}]]

\* ResourceMonitor.snapshot: the four locals start at zero/empty, each is
\* assigned when its reading returns, and an exception ends the readings and
\* is swallowed.
Snapshot(monitor, rd) ==
    LET cpu_runs == monitor.enable_cpu
        cpu_raised == cpu_runs /\ rd.fail \in {"cpu_percent", "memory_info"}
        gpu_runs == ~cpu_raised /\ monitor.enable_gpu /\ monitor.gpu_available
    IN  ResourceSnapshot(
            IF cpu_runs /\ rd.fail /= "cpu_percent" THEN rd.cpu ELSE 0,
            IF cpu_runs /\ ~cpu_raised THEN rd.rss_mb ELSE 0,
            IF gpu_runs /\ rd.fail /= "load"
            THEN [i \in 1..monitor.gpu_devices |-> rd.load[i] * 100]
            ELSE <<>>,
            IF gpu_runs /\ rd.fail \notin {"load", "memoryUsed"}
            THEN [i \in 1..monitor.gpu_devices |-> rd.used[i]]
            ELSE <<>>)

\* ------------------------------------------------------------ profiler.py
\* Profiler._get_function_key: the identity of a frame, cached by
\* (co_filename, co_name, co_firstlineno).
CacheKey(frame) ==
    <<frame.f_code.co_filename, frame.f_code.co_name,
      frame.f_code.co_firstlineno>>

ResolveKey(frame) ==
    FunctionKey(frame.f_globals_name, frame.f_code.co_filename,
                frame.f_code.co_name, frame.f_code.co_firstlineno,
                frame.self_class)

\* A variant that resolves every frame anew.
GetFunctionKeyUncached(cache, frame) == ResolveKey(frame)

GetFunctionKey(cache, frame) ==
    IF CacheKey(frame) \in DOMAIN cache
    THEN cache[CacheKey(frame)]
    ELSE ResolveKey(frame)

CacheAfter(cache, frame) ==
    IF CacheKey(frame) \in DOMAIN cache
    THEN cache
    ELSE cache @@ (CacheKey(frame) :> ResolveKey(frame))

\* Profiler._should_ignore
ShouldIgnore(cfg, func_key) ==
    \/ /\ cfg.collapse_stdlib
       /\ (Contains("<", func_key.filename) \/ Contains(">", func_key.filename))
    \/ StartsWith(func_key.module, "pipelinescope.")
    \/ \E ignored \in cfg.ignore_modules :
           Contains(ignored, func_key.filename) \/ Contains(ignored, func_key.module)


\* sum of f[x] over x in S
RECURSIVE SumOver(_, _)
SumOver(S, f) ==
    IF S = {} THEN 0
    ELSE LET x == CHOOSE y \in S : TRUE IN f[x] + SumOver(S \ {x}, f)

Top(stack) == stack[Len(stack)]
Pop(stack) == SubSeq(stack, 1, Len(stack) - 1)

\* Profiler._on_call, lines 122-131: fetch or create the FunctionStats and
\* count the call.
StatsAfterCall(fs, func_key, t) ==
    LET stats == IF func_key \in DOMAIN fs THEN fs[func_key]
                 ELSE FunctionStats(func_key)
        counted == [stats EXCEPT
                      !.first_call_time = IF @ = NoTime THEN t ELSE @,
                      !.call_count = @ + 1,
                      !.active_calls = @ + 1]
    IN  [k \in DOMAIN fs \cup {func_key} |->
            IF k = func_key THEN counted ELSE fs[k]]

\* Profiler._on_call, line 135: the decimation interval of the sampling.
SAMPLE_INTERVAL == 100

\* A variant that samples a function once, at its 100th call.
SampleDueOnce(stats) == stats.sample_counter = SAMPLE_INTERVAL

\* Profiler._on_call, line 135
SampleDue(stats) == stats.sample_counter % SAMPLE_INTERVAL = 0

\* Profiler._on_call, lines 133-137: count the call for the sampling and,
\* when a sample is due, append the monitor's snapshot to the buffer.
SampledAfterCall(fs, func_key, snapshot) ==
    LET counted == [fs[func_key] EXCEPT !.sample_counter = @ + 1] IN
    [fs EXCEPT ![func_key] =
        IF SampleDue(counted)
        THEN [counted EXCEPT !.resource_samples = Append(@, snapshot)]
        ELSE counted]

\* A variant that counts an edge only when it creates it.
EdgesAfterCallOnce(ce, stack, func_key) ==
    IF stack /= <<>> /\ <<Top(stack)[1], func_key>> \notin DOMAIN ce
    THEN ce @@ (<<Top(stack)[1], func_key>> :>
                  [CallEdge(Top(stack)[1], func_key) EXCEPT !.call_count = 1])
    ELSE ce

\* Profiler._on_call, lines 139-144: the caller is the top of call_stack.
EdgesAfterCall(ce, stack, func_key) ==
    IF stack /= <<>>
    THEN LET caller_key == Top(stack)[1]
             edge_key == <<caller_key, func_key>>
             edge == IF edge_key \in DOMAIN ce THEN ce[edge_key]
                     ELSE CallEdge(caller_key, func_key)
         IN  [e \in DOMAIN ce \cup {edge_key} |->
                 IF e = edge_key THEN [edge EXCEPT !.call_count = @ + 1]
                 ELSE ce[e]]
    ELSE ce

\* A variant without the ignore check of lines 119-120.
OnCallNoIgnore(frame, snapshot) ==
    LET func_key == GetFunctionKey(func_key_cache, frame) IN
    /\ func_key_cache' = CacheAfter(func_key_cache, frame)
    /\ function_stats' =
           SampledAfterCall(StatsAfterCall(function_stats, func_key, now),
                            func_key, snapshot)
    /\ call_edges' = EdgesAfterCall(call_edges, call_stack, func_key)
    /\ call_stack' = Append(call_stack, <<func_key, now>>)

\* Profiler._on_call
OnCall(frame, snapshot) ==
    LET func_key == GetFunctionKey(func_key_cache, frame) IN
    /\ func_key_cache' = CacheAfter(func_key_cache, frame)
    /\ IF ShouldIgnore(config, func_key)
       THEN UNCHANGED <<function_stats, call_edges, call_stack>>
       ELSE /\ function_stats' =
                   SampledAfterCall(
                       StatsAfterCall(function_stats, func_key, now),
                       func_key, snapshot)
            /\ call_edges' = EdgesAfterCall(call_edges, call_stack, func_key)
            /\ call_stack' = Append(call_stack, <<func_key, now>>)

\* Profiler._on_return, line 159
ElapsedMs(t, start) == t - start

\* A variant that counts nested time once: only the outermost invocation of
\* a function adds its elapsed time.
StatsAfterReturnOutermost(fs, func_key, elapsed_ms) ==
    [fs EXCEPT ![func_key].total_time_ms =
                   IF fs[func_key].active_calls = 1 THEN @ + elapsed_ms ELSE @,
               ![func_key].active_calls = @ - 1]

\* Profiler._on_return, lines 157-168: add the frame's elapsed time.
StatsAfterReturn(fs, func_key, elapsed_ms) ==
    [fs EXCEPT ![func_key].total_time_ms = @ + elapsed_ms,
               ![func_key].active_calls = @ - 1]

Max(a, b) == IF a >= b THEN a ELSE b

\* The mean of f[i] over i in 1..n, as a fraction.
Mean(f, n) == RatDiv(RatSumOver(1..n, [i \in 1..n |-> RatOf(f[i])]), RatOf(n))

\* A variant that leaves the sample buffer as it is.
ResourcesAfterReturnKept(fs, func_key) ==
    LET stats == fs[func_key]
        samples == stats.resource_samples
    IN  IF samples = <<>> THEN fs
        ELSE [fs EXCEPT ![func_key] = [stats EXCEPT
                 !.peak_memory_mb = Max(@, samples[Len(samples)].memory_mb),
                 !.avg_cpu_percent =
                     IF @ = RatOf(0)
                     THEN Mean([i \in 1..Len(samples) |-> samples[i].cpu_percent],
                               Len(samples))
                     ELSE @]]

\* A variant that takes the CPU value of the last sample for the average.
ResourcesAfterReturnLastCpu(fs, func_key) ==
    LET stats == fs[func_key]
        samples == stats.resource_samples
    IN  IF samples = <<>> THEN fs
        ELSE [fs EXCEPT ![func_key] = [stats EXCEPT
                 !.peak_memory_mb = Max(@, samples[Len(samples)].memory_mb),
                 !.avg_cpu_percent =
                     IF @ = RatOf(0)
                     THEN RatOf(samples[Len(samples)].cpu_percent)
                     ELSE @,
                 !.resource_samples = <<>>]]

\* Profiler._on_return, lines 170-179: with samples in the buffer, raise the
\* peak memory to that of the last one and, while avg_cpu_percent is 0.0, set
\* it to the mean of their CPU values; then clear the buffer.
ResourcesAfterReturn(fs, func_key) ==
    LET stats == fs[func_key]
        samples == stats.resource_samples
    IN  IF samples = <<>> THEN fs
        ELSE [fs EXCEPT ![func_key] = [stats EXCEPT
                 !.peak_memory_mb = Max(@, samples[Len(samples)].memory_mb),
                 !.avg_cpu_percent =
                     IF @ = RatOf(0)
                     THEN Mean([i \in 1..Len(samples) |-> samples[i].cpu_percent],
                               Len(samples))
                     ELSE @,
                 !.resource_samples = <<>>]]

\* Profiler._on_return, lines 162-166: the caller is the new top.
EdgesAfterReturn(ce, rest, func_key, elapsed_ms) ==
    IF rest /= <<>> /\ <<Top(rest)[1], func_key>> \in DOMAIN ce
    THEN [ce EXCEPT ![<<Top(rest)[1], func_key>>].total_time_ms = @ + elapsed_ms]
    ELSE ce

\* A variant that books a return it cannot match as a call of the returning
\* function.
ReturnOnEmptyStackCounted ==
    /\ function_stats' = StatsAfterCall(function_stats, Top(frames).key, now)
    /\ UNCHANGED <<call_edges, call_stack>>

\* Profiler._on_return, lines 149-150: `if not self.call_stack: return`
ReturnOnEmptyStack == UNCHANGED <<function_stats, call_edges, call_stack>>

\* Profiler._on_return
OnReturn ==
    /\ UNCHANGED func_key_cache
    /\ IF call_stack = <<>>
       THEN ReturnOnEmptyStack
       ELSE LET func_key == Top(call_stack)[1]
                elapsed_ms == ElapsedMs(now, Top(call_stack)[2])
                rest == Pop(call_stack)
            IN  /\ call_stack' = rest
                /\ IF func_key \notin DOMAIN function_stats
                   THEN UNCHANGED <<function_stats, call_edges>>
                   ELSE /\ function_stats' =
                             ResourcesAfterReturn(
                                 StatsAfterReturn(function_stats, func_key,
                                                  elapsed_ms),
                                 func_key)
                        /\ call_edges' =
                             EdgesAfterReturn(call_edges, rest, func_key, elapsed_ms)

\* Profiler._finalize_resource_metrics: for a function with samples in its
\* buffer whose last sample has accelerator data, per device of that sample
\* the sum of the utilizations of the samples that have the device over the
\* number of samples, and the largest memory used.
FinalizeResourceMetrics(fs) ==
    [k \in DOMAIN fs |->
        LET samples == fs[k].resource_samples
            n == Len(samples)
            num_gpus == Len(samples[n].gpu_utilization)
            Having(i) == {j \in 1..n : Len(samples[j].gpu_utilization) > i - 1}
            HavingMem(i) == {j \in 1..n : Len(samples[j].gpu_memory_mb) > i - 1}
        IN  IF samples = <<>> \/ num_gpus = 0 THEN fs[k]
            ELSE [fs[k] EXCEPT
                    !.avg_gpu_utilization =
                        [i \in 1..num_gpus |->
                            RatDiv(RatSumOver(Having(i),
                                       [j \in 1..n |->
                                           IF j \in Having(i)
                                           THEN RatOf(samples[j].gpu_utilization[i])
                                           ELSE RatOf(0)]),
                                   RatOf(n))],
                    !.peak_gpu_memory_mb =
                        [i \in 1..num_gpus |->
                            IF HavingMem(i) = {} THEN 0
                            ELSE CHOOSE m \in {samples[j].gpu_memory_mb[i] :
                                                   j \in HavingMem(i)} :
                                     \A j \in HavingMem(i) :
                                         samples[j].gpu_memory_mb[i] <= m]]]

\* A variant that sums an edge's time under its callee.
CallerChildrenByCallee(ce, func_key) ==
    SumOver({e \in DOMAIN ce : e[2] = func_key},
            [e \in DOMAIN ce |-> ce[e].total_time_ms])

\* Profiler.stop, lines 57-60: caller_children[caller]
CallerChildren(ce, func_key) ==
    SumOver({e \in DOMAIN ce : e[1] = func_key},
            [e \in DOMAIN ce |-> ce[e].total_time_ms])

\* A variant with the sign of the callees' time wrong.
SelfTimePlus(stats, children) == stats.total_time_ms + children

\* Profiler.stop, line 63
SelfTime(stats, children) == stats.total_time_ms - children

\* Profiler.stop, lines 62-63
Finalized(fs, ce) ==
    [k \in DOMAIN fs |->
        [fs[k] EXCEPT !.self_time_ms = SelfTime(fs[k], CallerChildren(ce, k))]]

\* Variants of the three operators below in which stop() leaves the
\* container as it is.
StatsKeptAfterStop(fs) == fs
EdgesKeptAfterStop(ce) == ce
StackKeptAfterStop(stack) == stack

\* Profiler.stop, lines 73-75: function_stats.clear(), call_edges.clear(),
\* call_stack.clear().
StatsAfterStop(fs) == <<>>
EdgesAfterStop(ce) == <<>>
StackAfterStop(stack) == <<>>

\* Profiler.stop, lines 65-66: the result holds copies of the two maps, and
\* a copy of a map holds the FunctionStats and CallEdge objects of the map
\* itself. A write to an object of fs or ce that res shares is a write to
\* res: shared.stats and shared.edges are the keys of the shared objects.
KeptAfterWrite(res, shared, fs, ce) ==
    IF res.kind /= "ProfilingResult" THEN res
    ELSE [res EXCEPT
            !.function_stats =
                [k \in DOMAIN @ |->
                    IF k \in shared.stats /\ k \in DOMAIN fs THEN fs[k] ELSE @[k]],
            !.call_edges =
                [e \in DOMAIN @ |->
                    IF e \in shared.edges /\ e \in DOMAIN ce THEN ce[e] ELSE @[e]]]

NoneShared == [stats |-> {}, edges |-> {}]

\* Profiler.__init__, lines 27-36: the containers of a new tracer.
NewTracer ==
    [function_stats |-> <<>>, call_edges |-> <<>>, call_stack |-> <<>>,
     func_key_cache |-> <<>>]

\* Profiler._on_call, as a function of the tracer's containers.
TracerAfterCall(tr, cfg, frame, t, snapshot) ==
    LET func_key == GetFunctionKey(tr.func_key_cache, frame)
        cached == [tr EXCEPT !.func_key_cache = CacheAfter(@, frame)]
    IN  IF ShouldIgnore(cfg, func_key) THEN cached
        ELSE [cached EXCEPT
                !.function_stats =
                    SampledAfterCall(StatsAfterCall(@, func_key, t), func_key,
                                     snapshot),
                !.call_edges = EdgesAfterCall(@, tr.call_stack, func_key),
                !.call_stack = Append(@, <<func_key, t>>)]

\* Profiler._on_return, as a function of the tracer's containers.
TracerAfterReturn(tr, t) ==
    IF tr.call_stack = <<>> THEN tr
    ELSE LET func_key == Top(tr.call_stack)[1]
             elapsed_ms == ElapsedMs(t, Top(tr.call_stack)[2])
             rest == Pop(tr.call_stack)
         IN  IF func_key \notin DOMAIN tr.function_stats
             THEN [tr EXCEPT !.call_stack = rest]
             ELSE [tr EXCEPT
                     !.call_stack = rest,
                     !.function_stats =
                         ResourcesAfterReturn(
                             StatsAfterReturn(@, func_key, elapsed_ms), func_key),
                     !.call_edges =
                         EdgesAfterReturn(@, rest, func_key, elapsed_ms)]

\* ------------------------------------------------------------ the run
\* The frame of the interpreter for a call of c made now: the identity the
\* resolver gives it, whether the hook saw the call (sess > 0) and ignored
\* it, its call time, where it is in its body, and (in the scripted scenarios)
\* how many calls it made; par holds the identity on top of call_stack when
\* the hook saw the call, if there was one.
NewFrame(c) ==
    LET key == GetFunctionKey(func_key_cache, Frame(c)) IN
    [code |-> c, key |-> key, ign |-> ShouldIgnore(config, key), t0 |-> now,
     sess |-> IF hook THEN session ELSE 0,
     par |-> IF hook /\ call_stack /= <<>> THEN <<Top(call_stack)[1]>>
             ELSE <<>>,
     pc |-> IF c \in ApiCodes THEN "body" ELSE "run", kids |-> 0]

ValueAt(f, k) == IF k \in DOMAIN f THEN f[k] ELSE 0

Inc(f, k) ==
    [x \in DOMAIN f \cup {k} |->
        IF x = k THEN (IF k \in DOMAIN f THEN f[k] ELSE 0) + 1 ELSE f[x]]

Add(f, k, v) ==
    [x \in DOMAIN f \cup {k} |->
        IF x = k THEN (IF k \in DOMAIN f THEN f[k] ELSE 0) + v ELSE f[x]]

\* What main does in the scripted scenarios, and what A and B do in the
\* end-to-end scenario of the spec (A calls B twice, B calls C three times).
AbcScript(c) ==
    CASE c = "main" -> <<"start", "A", "stop">>
      [] c = "A" -> <<"B", "B">>
      [] c = "B" -> <<"C", "C", "C">>
      [] OTHER -> <<>>

\* The program of two sessions on one tracer: main runs start(), one call,
\* stop(), and the three again; the call is of A, which calls B, of
\* TestClass.method on an instance of one of the two classes, or of
\* json.dumps. B may call the dependency's function V before it returns.
TwoScript ==
    <<{"start"}, {"A"} \cup MethodCodes \cup StdlibCodes, {"stop"},
      {"start"}, {"A"} \cup MethodCodes \cup StdlibCodes, {"stop"}>>

\* The program of a stop() inside a running function: main runs start(), B
\* and A; A calls B and then stop().
OpenScript(c) ==
    CASE c = "main" -> <<"start", "B", "A">>
      [] c = "A" -> <<"B", "stop">>
      [] OTHER -> <<>>

MayCall(c) ==
    LET top == Top(frames) IN
    CASE scenario = "any" ->
            /\ c \in {"A", "B", "V", "start", "stop"}
            /\ ncalls < MaxCalls
            /\ Len(frames) < MaxDepth
      [] scenario = "two" ->
            IF top.code = "main"
            THEN top.kids < Len(TwoScript) /\ c \in TwoScript[top.kids + 1]
            ELSE \/ top.code = "A" /\ top.kids = 0 /\ c = "B"
                 \/ top.code = "B" /\ top.kids = 0 /\ c = "V"
      [] scenario = "loop" ->
            /\ ncalls < MaxLoopCalls
            /\ IF top.code = "main"
               THEN IF top.kids = 0 THEN c = "start"
                    ELSE /\ active
                         /\ c \in {"A", "B", "V", "stop"}
                         /\ c = "B" => ValueAt(gCalls, ResolveKey(Frame("B"))) < MaxOther
                         /\ c = "V" => ~gIgnCall
               ELSE top.code = "A" /\ top.kids = 0 /\ c = "V" /\ ~gIgnCall
      [] scenario = "deep" ->
            IF top.code = "main"
            THEN top.kids < 3 /\ c = AbcScript("main")[top.kids + 1]
            ELSE /\ top.code = "A" /\ top.kids = 0
                 /\ IF ncalls < MaxLoopCalls THEN c = "A" ELSE c = "stop"
      [] scenario = "abc" ->
            /\ top.kids < Len(AbcScript(top.code))
            /\ c = AbcScript(top.code)[top.kids + 1]
      [] scenario = "open" ->
            /\ top.kids < Len(OpenScript(top.code))
            /\ c = OpenScript(top.code)[top.kids + 1]
      [] OTHER ->
            IF top.code = "main"
            THEN top.kids < 3 /\ c = AbcScript("main")[top.kids + 1]
            ELSE c = "A" /\ top.kids = 0 /\ Len(frames) <= MaxRecDepth + 1

MayReturn ==
    LET top == Top(frames) IN
    CASE scenario = "any" -> TRUE
      [] scenario = "abc" ->
            top.code /= "main" /\ top.kids = Len(AbcScript(top.code))
      [] scenario = "open" ->
            top.code /= "main" /\ top.kids = Len(OpenScript(top.code))
      [] scenario = "two" ->
            top.code /= "main" /\ (top.code = "A" => top.kids = 1)
      [] scenario = "deep" ->
            /\ top.code /= "main"
            /\ top.code = "A" => (top.kids = 1 \/ ncalls >= MaxLoopCalls)
      [] OTHER -> top.code /= "main"

TimeBound ==
    CASE scenario = "any" -> MaxTime
      [] scenario \in {"abc", "two", "open"} -> MaxScenarioTime
      [] OTHER -> MaxRecTime

\* The monitor of the tracer: Profiler.__init__, lines 32-34, with the two
\* features enabled (the defaults of config.py) on a host with a process
\* and MaxDevices devices.
TracerMonitor ==
    NewMonitor(TRUE, TRUE, [process_ok |-> TRUE, gpus |-> MaxDevices])

\* What resource_monitor.snapshot() may return in the call event of c: taken
\* only when a sample is due, with every reading returning or with the
\* devices' load raising.
CallSnapshots(c) ==
    LET key == GetFunctionKey(func_key_cache, Frame(c))
        stats == IF key \in DOMAIN function_stats THEN function_stats[key]
                 ELSE FunctionStats(key)
    IN  IF /\ hook
           /\ SampleDue([stats EXCEPT !.sample_counter = @ + 1])
           /\ ~ShouldIgnore(config, key)
        THEN {Snapshot(TracerMonitor, rd) :
                 rd \in {r \in Readings :
                            /\ r.fail \in {"none", "load"}
                            /\ \A i \in 1..MaxDevices : r.used[i] = 4}}
        ELSE {ResourceSnapshot(0, 0, <<>>, <<>>)}

\* The program calls c. With the hook installed the interpreter reports a
\* "call" event (Profiler._profile_callback).
PyCall(c) ==
    /\ frames /= <<>>
    /\ Top(frames).pc = "run"
    /\ MayCall(c)
    /\ frames' = Append([frames EXCEPT ![Len(frames)].kids =
                                        IF scenario = "any" THEN @ ELSE @ + 1],
                        NewFrame(c))
    /\ ncalls' = ncalls + 1
    /\ last' = "call"
    /\ UNCHANGED <<config, active, hook, start_time, end_time, result, now,
                   scenario, session, gTotal, gEdgeTime, gResults, keptShared,
                   input, output, entry,
                   pair>>
    /\ IF hook
       THEN /\ \E snapshot \in CallSnapshots(c) :
                   /\ OnCall(Frame(c), snapshot)
                   /\ gFresh' = TracerAfterCall(gFresh, config, Frame(c), now,
                                                snapshot)
            /\ kept' = KeptAfterWrite(kept, keptShared, function_stats',
                                      call_edges')
            /\ LET f == NewFrame(c)
                   parent == Top(frames)
               IN  IF f.ign
                   THEN /\ gIgnCall' = TRUE
                        /\ UNCHANGED <<gCalls, gEdgeCalls, gRootCalls>>
                   ELSE /\ gCalls' = Inc(gCalls, f.key)
                        /\ UNCHANGED gIgnCall
                        /\ IF parent.sess = session /\ ~parent.ign
                           THEN /\ gEdgeCalls' = Inc(gEdgeCalls, <<parent.key, f.key>>)
                                /\ UNCHANGED gRootCalls
                           ELSE /\ gRootCalls' = Inc(gRootCalls, f.key)
                                /\ UNCHANGED gEdgeCalls
       ELSE UNCHANGED <<function_stats, call_edges, call_stack, func_key_cache,
                        gCalls, gEdgeCalls, gRootCalls, gIgnCall, kept, gFresh>>

\* The top frame returns. With the hook installed the interpreter reports a
\* "return" event.
PyReturn ==
    /\ frames /= <<>>
    /\ Top(frames).pc /= "body"
    /\ MayReturn
    /\ frames' = Pop(frames)
    /\ last' = IF hook /\ call_stack = <<>> THEN "return_empty" ELSE "return"
    /\ UNCHANGED <<config, active, hook, start_time, end_time, result, now,
                   ncalls, scenario, session, gCalls, gEdgeCalls, gRootCalls,
                   gIgnCall, gResults, keptShared, input, output, entry,
                   pair>>
    /\ IF hook
       THEN /\ OnReturn
            /\ kept' = KeptAfterWrite(kept, keptShared, function_stats',
                                      call_edges')
            /\ gFresh' = TracerAfterReturn(gFresh, now)
            /\ LET f == Top(frames) IN
               /\ gTotal' = IF f.sess = session /\ ~f.ign
                            THEN Add(gTotal, f.key, now - f.t0)
                            ELSE gTotal
               /\ gEdgeTime' = IF f.sess = session /\ ~f.ign /\ f.par /= <<>>
                                THEN Add(gEdgeTime, <<f.par[1], f.key>>,
                                         now - f.t0)
                                ELSE gEdgeTime
       ELSE UNCHANGED <<function_stats, call_edges, call_stack, func_key_cache,
                        gTotal, gEdgeTime, kept, gFresh>>

\* Variants of the two guards below that never take the early return.
NeverAlreadyActive == FALSE
NeverNotActive == FALSE

\* Profiler.start, line 40: `if self.active: return`
AlreadyActive == active

\* Profiler.stop, line 49: `if not self.active: return None`
NotActive == ~active

\* Profiler.start (its body)
Start ==
    /\ frames /= <<>>
    /\ Top(frames).code = "start"
    /\ Top(frames).pc = "body"
    /\ frames' = [frames EXCEPT ![Len(frames)].pc = "ret"]
    /\ UNCHANGED <<config, function_stats, call_edges, call_stack,
                   func_key_cache, end_time, result, now, ncalls, scenario,
                   gResults, kept, keptShared, input, output, entry,
                   pair>>
    /\ IF AlreadyActive
       THEN /\ UNCHANGED <<active, hook, start_time, session, gTotal, gCalls,
                           gEdgeCalls, gRootCalls, gEdgeTime, gIgnCall,
                           gFresh>>
            /\ last' = "start_noop"
       ELSE /\ active' = TRUE
            /\ start_time' = now
            /\ hook' = TRUE
            /\ session' = session + 1
            /\ gTotal' = <<>>
            /\ gCalls' = <<>>
            /\ gEdgeCalls' = <<>>
            /\ gRootCalls' = <<>>
            /\ gEdgeTime' = <<>>
            /\ gIgnCall' = FALSE
            /\ gFresh' = NewTracer
            /\ last' = "start"

\* Profiler.stop (its body)
Stop ==
    /\ frames /= <<>>
    /\ Top(frames).code = "stop"
    /\ Top(frames).pc = "body"
    /\ frames' = [frames EXCEPT ![Len(frames)].pc = "ret"]
    /\ UNCHANGED <<config, func_key_cache, start_time, now, ncalls, scenario,
                   session, gTotal, gCalls, gEdgeCalls, gRootCalls, gEdgeTime,
                   gIgnCall, input, output, entry,
                   pair>>
    /\ IF NotActive
       THEN /\ result' = NoResult
            /\ UNCHANGED <<active, hook, function_stats, call_edges,
                           call_stack, end_time, gResults, kept, keptShared,
                           gFresh>>
            /\ last' = "stop_none"
       ELSE LET finalized == Finalized(FinalizeResourceMetrics(function_stats),
                                       call_edges) IN
            /\ active' = FALSE
            /\ end_time' = now
            /\ hook' = FALSE
            /\ result' = ProfilingResult(finalized, call_edges,
                                         now - start_time, start_time, now)
            /\ function_stats' = StatsAfterStop(finalized)
            /\ call_edges' = EdgesAfterStop(call_edges)
            /\ call_stack' = StackAfterStop(call_stack)
            /\ kept' = IF kept = NoResult THEN result'
                       ELSE KeptAfterWrite(kept, keptShared, finalized,
                                           call_edges)
            /\ keptShared' =
                  IF kept = NoResult
                  THEN [stats |-> DOMAIN function_stats',
                        edges |-> DOMAIN call_edges']
                  ELSE [stats |-> keptShared.stats \cap DOMAIN function_stats',
                        edges |-> keptShared.edges \cap DOMAIN call_edges']
            /\ gFresh' = [gFresh EXCEPT
                             !.function_stats =
                                 Finalized(FinalizeResourceMetrics(@),
                                           gFresh.call_edges)]
            /\ gResults' = gResults + 1
            /\ last' = "stop"

\* time.time() advances. Every time the profiler reports is the difference
\* of two readings taken in one session, so the clock is left at rest
\* between sessions.
Tick ==
    /\ active
    /\ now < TimeBound
    /\ now' = now + 1
    /\ UNCHANGED <<last, config, active, hook, function_stats, call_edges,
                   call_stack, func_key_cache, start_time, end_time, result,
                   frames, ncalls, scenario, session, gTotal, gCalls,
                   gEdgeCalls, gRootCalls, gEdgeTime, gIgnCall, gResults,
                   kept, keptShared, gFresh, input, output, entry,
                   pair>>

\* PipelineProfiler.__init__, for the instance the entrypoint module makes
\* when it is imported, in a process that has written no output yet. None is
\* the empty sequence and an object a sequence of one. The fields after
\* atexit_registered are the process's: its atexit table, the run outputs
\* written, how deep the program is in user functions, whether it has exited,
\* and history: sessions begun, configurations loaded, Profilers created,
\* CALL events of user functions in the session, start() calls made while
\* it was active, the events seen before the last of them, the operation
\* called last, whether the Profiler's hook is installed, the second the
\* clock shows, the run directories made, and whether the last stop() or
\* exit raised.
NewPipelineProfiler ==
    [active |-> FALSE, profiler |-> <<>>, config |-> <<>>,
     atexit_registered |-> FALSE,
     atexit |-> 0, outputs |-> <<>>, depth |-> 0, exited |-> FALSE,
     session |-> 0, loads |-> 0, created |-> 0, runs |-> 0, restarts |-> 0,
     before |-> 0, last |-> "init", hook |-> FALSE, clock |-> 0,
     made |-> {}, raised |-> FALSE]

\* Two Profiler instances as constructed (Profiler.__init__) in a process
\* without a hook.
NewProfiler == [active |-> FALSE, tracer |-> NewTracer, result |-> NoResult]

NewPair ==
    [hook |-> 0, profilers |-> [i \in 1..2 |-> NewProfiler], calls |-> 0,
     depth |-> 0, last |-> "init"]

NoInput == [kind |-> "None"]
NoOutput == [kind |-> "None"]

\* Profiler.__init__, in a program whose entry point is running.
InitTracer ==
    /\ active = FALSE
    /\ hook = FALSE
    /\ function_stats = <<>>
    /\ call_edges = <<>>
    /\ call_stack = <<>>
    /\ func_key_cache = <<>>
    /\ start_time = NoTime
    /\ end_time = NoTime
    /\ result = NoResult
    /\ now = 0
    /\ frames = <<[code |-> "main", key |-> ResolveKey(Frame("main")),
                   ign |-> FALSE, t0 |-> 0, sess |-> 0, par |-> <<>>,
                   pc |-> "run", kids |-> 0]>>
    /\ ncalls = 0
    /\ session = 0
    /\ gTotal = <<>>
    /\ gCalls = <<>>
    /\ gEdgeCalls = <<>>
    /\ gRootCalls = <<>>
    /\ gEdgeTime = <<>>
    /\ gIgnCall = FALSE
    /\ gResults = 0
    /\ kept = NoResult
    /\ keptShared = NoneShared
    /\ gFresh = NewTracer
    /\ last = "init"
    /\ entry = NewPipelineProfiler
    /\ pair = NewPair

\* The scripted programs run under both configurations; the free one, the
\* one of two sessions and the one that stops inside a running function
\* under the default configuration.
Init ==
    /\ \/ scenario \in {"any", "two", "open"} /\ config = DefaultConfig
       \/ scenario \in {"rec", "abc"} /\ config \in Configs
    /\ InitTracer
    /\ input = NoInput
    /\ output = NoOutput

Next ==
    \/ \E c \in Codes : PyCall(c)
    \/ PyReturn
    \/ Start
    \/ Stop
    \/ Tick

Spec == Init /\ [][Next]_vars

\* The programs of the sampling. "loop": after start(), main calls A again
\* and again, now and then B or the dependency's V (which A may call as
\* well), and stop() at any point. "deep": after start(), main calls A, which
\* calls itself until MaxLoopCalls calls were made; the innermost A returns
\* or calls stop() first, the recursion unwinds, and main calls stop(). The
\* clock is at rest.
InitSampling ==
    /\ scenario \in {"loop", "deep"}
    /\ config = DefaultConfig
    /\ InitTracer
    /\ input = NoInput
    /\ output = NoOutput

NextSampling ==
    \/ \E c \in Codes : PyCall(c)
    \/ PyReturn
    \/ Start
    \/ Stop

SpecSampling == InitSampling /\ [][NextSampling]_vars

\* ------------------------------------------------------------ doubles
\* A Python float is an IEEE 754 double: 53 significant bits, results rounded
\* to nearest, ties to even. A double other than 0 is [m, e]: the 53 bits m,
\* most significant (a 1) first, and the exponent e of m[1], so that its
\* value is the sum of m[i] * 2^(e - i + 1).
MantissaBits == 53

DoubleZero == [zero |-> TRUE, m |-> <<>>, e |-> 0]

RECURSIVE Pow2(_)
Pow2(k) == IF k = 0 THEN 1 ELSE 2 * Pow2(k - 1)

\* The largest e with 2^e <= n / d (n, d > 0).
RECURSIVE FloorLog2Up(_, _, _)
FloorLog2Up(n, d, e) == IF 2 * d <= n THEN FloorLog2Up(n, 2 * d, e + 1) ELSE e
RECURSIVE FloorLog2Down(_, _, _)
FloorLog2Down(n, d, e) == IF n < d THEN FloorLog2Down(2 * n, d, e - 1) ELSE e
FloorLog2(n, d) ==
    IF n >= d THEN FloorLog2Up(n, d, 0) ELSE FloorLog2Down(n, d, 0)

\* Long division: the next k bits of r / d (r < d), followed by the
\* remainder left. The bits are produced half by half: `first` holds h
\* bits and the remainder the other k - h bits start from.
RECURSIVE DivBits(_, _, _)
DivBitsAfter(first, d, h, k) ==
    SubSeq(first, 1, h) \o DivBits(first[h + 1], d, k - h)
DivBits(r, d, k) ==
    IF k = 0 THEN <<r>>
    ELSE IF k = 1
    THEN IF 2 * r >= d THEN <<1, 2 * r - d>> ELSE <<0, 2 * r>>
    ELSE DivBitsAfter(DivBits(r, d, k \div 2), d, k \div 2, k)

\* bits + 1, preceded by the carry out of the first bit: the last 0 becomes
\* 1 and the bits after it 0.
IncBits(bits) ==
    LET zeros == {i \in 1..Len(bits) : bits[i] = 0}
        last0 == CHOOSE i \in zeros : \A j \in zeros : j <= i
    IN  IF zeros = {} THEN <<1>> \o [i \in 1..Len(bits) |-> 0]
        ELSE <<0>> \o [i \in 1..Len(bits) |->
                          IF i < last0 THEN bits[i]
                          ELSE IF i = last0 THEN 1 ELSE 0]

\* Round to nearest, ties to even: m are the bits kept, e the exponent of
\* m[1], guard the first bit dropped, sticky whether a later one is set.
RoundNearestEven(m, e, guard, sticky) ==
    IF guard = 1 /\ (sticky \/ m[Len(m)] = 1)
    THEN LET up == IncBits(m)
         IN  IF up[1] = 1
             THEN [zero |-> FALSE, m |-> SubSeq(up, 1, Len(m)), e |-> e + 1]
             ELSE [zero |-> FALSE, m |-> SubSeq(up, 2, Len(m) + 1), e |-> e]
    ELSE [zero |-> FALSE, m |-> m, e |-> e]

\* The double n / d of the integers n >= 0 and d > 0 (Python's n / d).
DoubleDiv(n, d) ==
    IF n = 0 THEN DoubleZero
    ELSE LET e == FloorLog2(n, d)
             nn == IF e >= 0 THEN n ELSE n * Pow2(-e)
             dd == IF e >= 0 THEN d * Pow2(e) ELSE d
             q == DivBits(nn - dd, dd, MantissaBits)
         IN  RoundNearestEven(<<1>> \o SubSeq(q, 1, MantissaBits - 1), e,
                              q[MantissaBits], q[MantissaBits + 1] /= 0)

\* The binary digits of k >= 0, most significant first.
RECURSIVE IntBits(_)
IntBits(k) == IF k = 0 THEN <<>> ELSE IntBits(k \div 2) \o <<k % 2>>

RECURSIVE BitsToInt(_)
BitsToInt(bits) ==
    IF bits = <<>> THEN 0
    ELSE 2 * BitsToInt(SubSeq(bits, 1, Len(bits) - 1)) + bits[Len(bits)]

\* Bits hi down to lo of c * m, the least significant first, followed by
\* the carry out of bit lo, with the carry of the bits below hi; `low` is
\* the same for the bits after mid.
RECURSIVE MulRange(_, _, _, _, _)
MulRangeAbove(low, m, c, lo, mid) ==
    SubSeq(low, 1, Len(low) - 1) \o MulRange(m, c, lo, mid, low[Len(low)])
MulRange(m, c, lo, hi, carry) ==
    IF lo > hi THEN <<carry>>
    ELSE IF lo = hi
    THEN <<(c * m[lo] + carry) % 2, (c * m[lo] + carry) \div 2>>
    ELSE MulRangeAbove(MulRange(m, c, (lo + hi) \div 2 + 1, hi, carry),
                       m, c, lo, (lo + hi) \div 2)

Reversed(s) == [i \in 1..Len(s) |-> s[Len(s) + 1 - i]]

CarryThenBits(range) ==
    IntBits(range[Len(range)]) \o Reversed(SubSeq(range, 1, Len(range) - 1))

\* The bits of c * m, from bit i of m down, with the carry of the bits below.
MulBits(m, c, i, carry) == CarryThenBits(MulRange(m, c, 1, i, carry))

\* The double c * x of the integer c >= 0 and the double x (Python's c * x
\* with c an int below 2^53).
DoubleMulInt(c, x) ==
    IF c = 0 \/ x.zero THEN DoubleZero
    ELSE LET p == MulBits(x.m, c, MantissaBits, 0)
             extra == Len(p) - MantissaBits
         IN  RoundNearestEven(SubSeq(p, 1, MantissaBits), x.e + extra,
                              IF extra > 0 THEN p[MantissaBits + 1] ELSE 0,
                              \E i \in (MantissaBits + 2)..Len(p) : p[i] = 1)

\* Python's int(x) for a double x >= 0 below 2^53.
IntOfDouble(x) ==
    IF x.zero \/ x.e < 0 THEN 0 ELSE BitsToInt(SubSeq(x.m, 1, x.e + 1))

\* ------------------------------------------------------------ extrapolation.py
\* A variant that divides by 1 where there is no sample instead of falling
\* back to the factor 1.0.
ScaleFactorSampleOfOne(cfg) ==
    [num |-> cfg.expected_size,
     den |-> IF cfg.sample_size > 0 THEN cfg.sample_size ELSE 1]

\* extrapolate, line 42: the scale factor as the pair of integers whose
\* quotient it is; its value as a double is DoubleDiv of the two.
ScaleFactor(cfg) ==
    IF cfg.sample_size > 0
    THEN [num |-> cfg.expected_size, den |-> cfg.sample_size]
    ELSE [num |-> 1, den |-> 1]

\* ExtrapolatedStats.__init__, line 20: int(call_count * scale_factor)
ProjectedCalls(call_count, scale_factor) ==
    IntOfDouble(DoubleMulInt(call_count,
                             DoubleDiv(scale_factor.num, scale_factor.den)))

\* ExtrapolatedStats.__init__, lines 21-22: observed * scale_factor. The
\* product is kept exact: a time is not compared below the rounding of a
\* double.
ProjectedTime(time_ms, scale_factor) ==
    RatMul(RatOf(time_ms), Rat(scale_factor.num, scale_factor.den))

\* A variant that multiplies the CPU and memory metrics as well.
ExtrapolatedStatsAllScaled(original_stats, scale_factor) ==
    [observed_calls |-> original_stats.call_count,
     observed_time_ms |-> original_stats.total_time_ms,
     observed_self_time_ms |-> original_stats.self_time_ms,
     projected_calls |-> ProjectedCalls(original_stats.call_count, scale_factor),
     projected_time_ms |-> ProjectedTime(original_stats.total_time_ms, scale_factor),
     projected_self_time_ms |->
         ProjectedTime(original_stats.self_time_ms, scale_factor),
     avg_cpu_percent |-> original_stats.avg_cpu_percent * scale_factor.num,
     peak_memory_mb |-> original_stats.peak_memory_mb * scale_factor.num,
     avg_gpu_utilization |-> original_stats.avg_gpu_utilization,
     peak_gpu_memory_mb |-> original_stats.peak_gpu_memory_mb,
     percentage_of_total |-> RatOf(0)]

\* ExtrapolatedStats.__init__
ExtrapolatedStats(original_stats, scale_factor) ==
    [observed_calls |-> original_stats.call_count,
     observed_time_ms |-> original_stats.total_time_ms,
     observed_self_time_ms |-> original_stats.self_time_ms,
     projected_calls |-> ProjectedCalls(original_stats.call_count, scale_factor),
     projected_time_ms |-> ProjectedTime(original_stats.total_time_ms, scale_factor),
     projected_self_time_ms |->
         ProjectedTime(original_stats.self_time_ms, scale_factor),
     avg_cpu_percent |-> original_stats.avg_cpu_percent,
     peak_memory_mb |-> original_stats.peak_memory_mb,
     avg_gpu_utilization |-> original_stats.avg_gpu_utilization,
     peak_gpu_memory_mb |-> original_stats.peak_gpu_memory_mb,
     percentage_of_total |-> RatOf(0)]

\* A variant that totals the projected time instead of the projected self
\* time.
TotalProjectedTime(extrapolated) ==
    RatSumOver(DOMAIN extrapolated,
               [k \in DOMAIN extrapolated |-> extrapolated[k].projected_time_ms])

\* extrapolate, line 49
TotalProjectedSelfTime(extrapolated) ==
    RatSumOver(DOMAIN extrapolated,
               [k \in DOMAIN extrapolated |-> extrapolated[k].projected_self_time_ms])

\* extrapolate, lines 51-54
PercentageOfTotal(stats, total_projected_self_time) ==
    RatMul(RatDiv(stats.projected_self_time_ms, total_projected_self_time),
           RatOf(100))

\* extrapolate
Extrapolate(profiling_result, cfg) ==
    LET scale_factor == ScaleFactor(cfg)
        extrapolated ==
            [func_key \in DOMAIN profiling_result.function_stats |->
                ExtrapolatedStats(profiling_result.function_stats[func_key],
                                  scale_factor)]
        total_projected_self_time == TotalProjectedSelfTime(extrapolated)
    IN  IF RatLess(RatOf(0), total_projected_self_time)
        THEN [k \in DOMAIN extrapolated |->
                 [extrapolated[k] EXCEPT !.percentage_of_total =
                     PercentageOfTotal(extrapolated[k], total_projected_self_time)]]
        ELSE extrapolated

\* A FunctionStats as a session leaves it: counts, times and resource
\* metrics res.
ObservedStats(key, calls, total, self, res) ==
    [FunctionStats(key) EXCEPT
        !.call_count = calls, !.total_time_ms = total, !.self_time_ms = self,
        !.avg_cpu_percent = res.cpu, !.peak_memory_mb = res.mem,
        !.avg_gpu_utilization = res.gpu, !.peak_gpu_memory_mb = res.gpu_mem]

NoMetrics == [cpu |-> 0, mem |-> 0, gpu |-> <<>>, gpu_mem |-> <<>>]
ResourceMetrics == {NoMetrics, [cpu |-> 50, mem |-> 512, gpu |-> <<30>>,
                                gpu_mem |-> <<1024>>]}

\* What extrapolate is given: one function with any call count under any
\* pair of sizes, or three functions with any self times under a few pairs.
OneFunctionInputs ==
    {[kind |-> "extrapolate",
      result |-> ProfilingResult(
                     ResolveKey(Frame("A")) :>
                         ObservedStats(ResolveKey(Frame("A")), c, 3, 2, r),
                     <<>>, 3, 0, 3),
      config |-> [sample_size |-> ss, expected_size |-> es]] :
        c \in 0..MaxCount, ss \in (-1)..MaxSample, es \in 0..MaxExpected,
        r \in ResourceMetrics}

ThreeFunctionConfigs ==
    {[sample_size |-> 0, expected_size |-> 3],
     [sample_size |-> 2, expected_size |-> 3],
     [sample_size |-> 2, expected_size |-> 0]}

ThreeFunctionInputs ==
    {[kind |-> "extrapolate",
      result |-> ProfilingResult(
                     [k \in {ResolveKey(Frame(c)) : c \in {"A", "B", "C"}} |->
                         ObservedStats(k, 1, MaxSelf, st[k], NoMetrics)],
                     <<>>, MaxSelf, 0, MaxSelf),
      config |-> cfg] :
        st \in [{ResolveKey(Frame(c)) : c \in {"A", "B", "C"}} -> (-1)..MaxSelf],
        cfg \in ThreeFunctionConfigs}

ExtrapolateInputs == OneFunctionInputs \cup ThreeFunctionInputs

\* extrapolate reads the ProfilingResult it is given and writes to none of
\* its objects (lines 15-26 and 44-56 assign to the new objects only).
ResultAfterExtrapolate(profiling_result) == profiling_result

\* A call of extrapolate(profiling_result, config).
ExtrapolateCall ==
    /\ input.kind = "extrapolate"
    /\ output = NoOutput
    /\ output' = [kind |-> "extrapolated",
                  value |-> Extrapolate(input.result, input.config)]
    /\ input' = [input EXCEPT !.result = ResultAfterExtrapolate(@)]
    /\ UNCHANGED <<tracerVars, entry, pair, scenario>>

InitExtrapolate ==
    /\ scenario = "none"
    /\ config = DefaultConfig
    /\ InitTracer
    /\ input \in ExtrapolateInputs
    /\ output = NoOutput

NextExtrapolate == ExtrapolateCall

SpecExtrapolate == InitExtrapolate /\ [][NextExtrapolate]_vars

\* ------------------------------------------------------------ analyzer.py
\* _should_include_function
ShouldIncludeFunction(func_key) ==
    /\ ~IsBlank(func_key.funcname)
    /\ ~StartsWith(func_key.funcname, "<")
    /\ ~CheckStdlib(func_key)

\* HotspotFunction.__init__ (the fields the analyzer reads)
HotspotFunction(func_key, stats, extrapolated) ==
    [func_key |-> func_key,
     display_name |->
         IF func_key.classname \notin {NoClass, ""}
         THEN Stage(func_key) \o "." \o func_key.classname \o "." \o func_key.funcname
         ELSE Stage(func_key) \o "." \o func_key.funcname,
     call_count |-> stats.call_count,
     projected_self_time_ms |-> extrapolated.projected_self_time_ms]

\* heapq on a list of tuples <<-projected_self_time_ms, id(hotspot), hotspot>>.
\* Tuples are compared element by element; two hotspots have different ids,
\* so the third element is never compared. Positions are Python's (from 0).
HeapLess(a, b) == RatLess(a[1], b[1]) \/ (a[1] = b[1] /\ a[2] < b[2])

\* heapq._siftdown(heap, startpos, pos) placing newitem
RECURSIVE SiftDown(_, _, _, _)
SiftDown(heap, startpos, pos, newitem) ==
    IF pos > startpos /\ HeapLess(newitem, heap[((pos - 1) \div 2) + 1])
    THEN SiftDown([heap EXCEPT ![pos + 1] = heap[((pos - 1) \div 2) + 1]],
                  startpos, (pos - 1) \div 2, newitem)
    ELSE [heap EXCEPT ![pos + 1] = newitem]

\* heapq._siftup(heap, pos) placing newitem: the smaller child moves up until
\* a leaf is reached, then newitem is sifted down from there.
RECURSIVE SiftUp(_, _, _, _)
SiftUp(heap, startpos, pos, newitem) ==
    IF 2 * pos + 1 < Len(heap)
    THEN LET childpos ==
                 IF 2 * pos + 2 < Len(heap)
                    /\ ~HeapLess(heap[2 * pos + 2], heap[2 * pos + 3])
                 THEN 2 * pos + 2
                 ELSE 2 * pos + 1
         IN  SiftUp([heap EXCEPT ![pos + 1] = heap[childpos + 1]],
                    startpos, childpos, newitem)
    ELSE SiftDown(heap, startpos, pos, newitem)

\* heapq.heappush(heap, item), the list afterwards
HeapPush(heap, item) == SiftDown(Append(heap, item), 0, Len(heap), item)

\* A variant of heappop that removes nothing.
HeapPopNothing(heap) == heap

\* heapq.heappop(heap), the list afterwards: the smallest item is removed.
HeapPop(heap) ==
    IF Len(heap) = 1 THEN <<>>
    ELSE SiftUp(SubSeq(heap, 1, Len(heap) - 1), 0, 0, heap[Len(heap)])

\* Insertion of x into a list sorted by projected_self_time_ms, largest
\* first, behind the entries that are not smaller: sorted(..., reverse=True)
\* keeps entries of equal key in their order.
RECURSIVE InsertDescending(_, _)
InsertDescending(sorted, x) ==
    IF sorted = <<>> THEN <<x>>
    ELSE IF RatLess(sorted[1].projected_self_time_ms, x.projected_self_time_ms)
         THEN <<x>> \o sorted
         ELSE <<sorted[1]>> \o InsertDescending(Tail(sorted), x)

RECURSIVE SortedDescending(_, _)
SortedDescending(list, n) ==
    IF n = 0 THEN <<>>
    ELSE InsertDescending(SortedDescending(list, n - 1), list[n])

\* extract_hotspots, lines 148-151: the heap after the push of hotspot and,
\* if it is longer than top_n then, the pop.
HeapAfterItem(heap, hotspot, ident, top_n) ==
    IF Len(heap) + 1 > top_n
    THEN HeapPop(HeapPush(heap, <<RatNeg(hotspot.projected_self_time_ms),
                                  ident, hotspot>>))
    ELSE HeapPush(heap, <<RatNeg(hotspot.projected_self_time_ms), ident,
                          hotspot>>)

\* extract_hotspots, lines 137-150: the heap after the first n items of
\* function_stats. ident[i] is id() of the hotspot made for item i.
RECURSIVE HotspotHeap(_, _, _, _, _)
HotspotHeap(items, extrapolated_stats, top_n, ident, n) ==
    IF n = 0 THEN <<>>
    ELSE IF \/ items[n].func_key \notin DOMAIN extrapolated_stats
            \/ ~ShouldIncludeFunction(items[n].func_key)
            \/ HotspotFunction(items[n].func_key, items[n].stats,
                   extrapolated_stats[items[n].func_key]).display_name = ""
         THEN HotspotHeap(items, extrapolated_stats, top_n, ident, n - 1)
         ELSE HeapAfterItem(
                  HotspotHeap(items, extrapolated_stats, top_n, ident, n - 1),
                  HotspotFunction(items[n].func_key, items[n].stats,
                                  extrapolated_stats[items[n].func_key]),
                  ident[n], top_n)

\* extract_hotspots, line 152: the hotspots of the heap, sorted.
SortedHotspots(heap) ==
    SortedDescending([i \in 1..Len(heap) |-> heap[i][3]], Len(heap))

\* extract_hotspots; items is profiling_result.function_stats.items()
ExtractHotspots(items, extrapolated_stats, top_n, ident) ==
    SortedHotspots(HotspotHeap(items, extrapolated_stats, top_n, ident,
                               Len(items)))

\* get_all_functions, lines 211-222: the hotspots of the eligible functions,
\* in the order of function_stats.
RECURSIVE AllHotspots(_, _, _)
AllHotspots(items, extrapolated_stats, n) ==
    IF n = 0 THEN <<>>
    ELSE IF \/ items[n].func_key \notin DOMAIN extrapolated_stats
            \/ ~ShouldIncludeFunction(items[n].func_key)
            \/ HotspotFunction(items[n].func_key, items[n].stats,
                   extrapolated_stats[items[n].func_key]).display_name = ""
         THEN AllHotspots(items, extrapolated_stats, n - 1)
         ELSE Append(AllHotspots(items, extrapolated_stats, n - 1),
                     HotspotFunction(items[n].func_key, items[n].stats,
                         extrapolated_stats[items[n].func_key]))

\* get_all_functions
GetAllFunctions(items, extrapolated_stats) ==
    SortedDescending(AllHotspots(items, extrapolated_stats, Len(items)),
                     Len(AllHotspots(items, extrapolated_stats, Len(items))))

\* The functions of the results given to extract_hotspots, in the order of
\* function_stats: user functions, a lambda, a method and a function of the
\* standard library.
HotspotPool ==
    <<FunctionKey("app", "/w/app.py", "load", 1, NoClass),
      FunctionKey("app", "/w/app.py", "clean", 5, NoClass),
      FunctionKey("app", "/w/app.py", "<lambda>", 9, NoClass),
      FunctionKey("app", "/w/app.py", "fit", 13, "TestClass"),
      FunctionKey("json.decoder", "/usr/lib/python3.11/json/decoder.py",
                  "decode", 332, NoClass),
      FunctionKey("app", "/w/app.py", "save", 20, NoClass),
      FunctionKey("app", "/w/app.py", "report", 30, NoClass)>>

ProjectedValues == {0, 1, 2}

\* An entry of extrapolated_stats with projected self time t.
ProjectedEntry(t) ==
    [projected_calls |-> 1, projected_time_ms |-> RatOf(t),
     projected_self_time_ms |-> RatOf(t), percentage_of_total |-> RatOf(0)]

\* What extract_hotspots is given: the first MaxFuncs functions of the pool
\* with any projected self times, one of them (or none, 0) absent from
\* extrapolated_stats, any top_n, and the hotspot objects at addresses that
\* rise or fall in the order of their creation.
HotspotInputs ==
    {[kind |-> "extract_hotspots",
      items |-> [i \in 1..MaxFuncs |->
                    [func_key |-> HotspotPool[i],
                     stats |-> ObservedStats(HotspotPool[i], 1, t[i], t[i],
                                             NoMetrics)]],
      extrapolated_stats |->
          [k \in {HotspotPool[i] : i \in (1..MaxFuncs) \ {absent}} |->
              ProjectedEntry(
                  t[CHOOSE i \in 1..MaxFuncs : HotspotPool[i] = k])],
      top_n |-> top_n,
      ident |-> [i \in 1..MaxFuncs |->
                    IF rising THEN i ELSE MaxFuncs + 1 - i]] :
        t \in [1..MaxFuncs -> ProjectedValues], absent \in 0..MaxFuncs,
        top_n \in 0..MaxTopN, rising \in BOOLEAN}

\* A call of extract_hotspots(profiling_result, extrapolated_stats, top_n).
ExtractHotspotsCall ==
    /\ input.kind = "extract_hotspots"
    /\ output = NoOutput
    /\ output' = [kind |-> "hotspots",
                  value |-> ExtractHotspots(input.items,
                                            input.extrapolated_stats,
                                            input.top_n, input.ident)]
    /\ UNCHANGED <<input, tracerVars, entry, pair, scenario>>

InitHotspots ==
    /\ scenario = "none"
    /\ config = DefaultConfig
    /\ InitTracer
    /\ input \in HotspotInputs
    /\ output = NoOutput

NextHotspots == ExtractHotspotsCall

SpecHotspots == InitHotspots /\ [][NextHotspots]_vars

\* aggregate_by_module, lines 171-183: the keys of module_data in the order
\* in which the first n items of function_stats created them.
RECURSIVE ModulesSeen(_, _)
ModulesSeen(items, n) ==
    IF n = 0 THEN <<>>
    ELSE LET seen == ModulesSeen(items, n - 1)
             module == items[n].func_key.module
         IN  IF \/ ~ShouldIncludeFunction(items[n].func_key)
                \/ \E i \in 1..Len(seen) : seen[i] = module
             THEN seen
             ELSE Append(seen, module)

\* aggregate_by_module, line 172: `if not _should_include_function(func_key):
\* continue`; the positions of the items that are counted.
Included(items) ==
    {i \in 1..Len(items) : ShouldIncludeFunction(items[i].func_key)}

\* aggregate_by_module, lines 170, 180-183: total_projected, the projected
\* time of every counted function that has an entry in extrapolated_stats.
TotalProjected(items, extrapolated_stats) ==
    RatSumOver({i \in Included(items) :
                   items[i].func_key \in DOMAIN extrapolated_stats},
               [i \in 1..Len(items) |->
                   IF items[i].func_key \in DOMAIN extrapolated_stats
                   THEN extrapolated_stats[items[i].func_key].projected_time_ms
                   ELSE RatOf(0)])

\* aggregate_by_module, lines 175-182 and 189-196: the aggregate of a module.
\* The sums are exact.
ModuleAggregate(items, extrapolated_stats, module_name) ==
    LET of == {i \in Included(items) : items[i].func_key.module = module_name}
        projected ==
            RatSumOver({i \in of : items[i].func_key \in DOMAIN extrapolated_stats},
                       [i \in 1..Len(items) |->
                           IF items[i].func_key \in DOMAIN extrapolated_stats
                           THEN extrapolated_stats[items[i].func_key].projected_time_ms
                           ELSE RatOf(0)])
        total_projected == TotalProjected(items, extrapolated_stats)
    IN  [module_name |-> module_name,
         function_count |-> Cardinality(of),
         total_calls |->
             SumOver(of, [i \in 1..Len(items) |-> items[i].stats.call_count]),
         total_time_ms |->
             SumOver(of, [i \in 1..Len(items) |-> items[i].stats.total_time_ms]),
         projected_time_ms |-> projected,
         percentage_of_total |->
             IF RatLess(RatOf(0), total_projected)
             THEN RatMul(RatDiv(projected, total_projected), RatOf(100))
             ELSE RatOf(0)]

\* aggregates.sort(key=projected_time_ms, reverse=True), line 201: x goes
\* behind the entries that are not smaller (the sort is stable).
RECURSIVE InsertByProjectedTime(_, _)
InsertByProjectedTime(sorted, x) ==
    IF sorted = <<>> THEN <<x>>
    ELSE IF RatLess(sorted[1].projected_time_ms, x.projected_time_ms)
         THEN <<x>> \o sorted
         ELSE <<sorted[1]>> \o InsertByProjectedTime(Tail(sorted), x)

\* aggregate_by_module, lines 185-201: the aggregates of the first n modules
\* that have a name, sorted.
RECURSIVE SortedAggregates(_, _, _, _)
SortedAggregates(items, extrapolated_stats, modules, n) ==
    IF n = 0 THEN <<>>
    ELSE IF modules[n] = ""
         THEN SortedAggregates(items, extrapolated_stats, modules, n - 1)
         ELSE InsertByProjectedTime(
                  SortedAggregates(items, extrapolated_stats, modules, n - 1),
                  ModuleAggregate(items, extrapolated_stats, modules[n]))

\* aggregate_by_module; items is profiling_result.function_stats.items()
AggregateByModule(items, extrapolated_stats) ==
    SortedAggregates(items, extrapolated_stats,
                     ModulesSeen(items, Len(items)),
                     Len(ModulesSeen(items, Len(items))))

\* The functions of the results given to aggregate_by_module: functions of
\* two modules, a lambda, a function of code run without a module name
\* (frame.f_globals has no "__name__") and one of the standard library.
AggregatePool ==
    <<FunctionKey("app", "/w/app.py", "load", 1, NoClass),
      FunctionKey("etl", "/w/etl.py", "clean", 5, NoClass),
      FunctionKey("", "/w/gen.py", "run", 1, NoClass),
      FunctionKey("app", "/w/app.py", "<lambda>", 9, NoClass),
      FunctionKey("app", "/w/app.py", "save", 20, NoClass),
      FunctionKey("json.decoder", "/usr/lib/python3.11/json/decoder.py",
                  "decode", 332, NoClass)>>

\* What aggregate_by_module is given: the first MaxFuncs functions of the
\* pool with any times, one of them (or none, 0) absent from
\* extrapolated_stats.
AggregateInputs ==
    {[kind |-> "aggregate_by_module",
      items |-> [i \in 1..MaxFuncs |->
                    [func_key |-> AggregatePool[i],
                     stats |-> ObservedStats(AggregatePool[i], i, t[i], t[i],
                                             NoMetrics)]],
      extrapolated_stats |->
          [k \in {AggregatePool[i] : i \in (1..MaxFuncs) \ {absent}} |->
              [ProjectedEntry(0) EXCEPT
                  !.projected_time_ms =
                      RatOf(3 * t[CHOOSE i \in 1..MaxFuncs :
                                      AggregatePool[i] = k])]]] :
        t \in [1..MaxFuncs -> ProjectedValues], absent \in 0..MaxFuncs}

\* A call of aggregate_by_module(profiling_result, extrapolated_stats).
AggregateByModuleCall ==
    /\ input.kind = "aggregate_by_module"
    /\ output = NoOutput
    /\ output' = [kind |-> "aggregates",
                  value |-> AggregateByModule(input.items,
                                              input.extrapolated_stats)]
    /\ UNCHANGED <<tracerVars, entry, pair, scenario, input>>

\* ------------------------------------------------------------ cli/diff.py
\* x > k for a double x >= 0 and an integer k >= 0.
DoubleGreaterInt(x, k) ==
    \/ IntOfDouble(x) > k
    \/ /\ IntOfDouble(x) = k
       /\ ~x.zero
       /\ x.e < 0 \/ \E i \in (x.e + 2)..MantissaBits : x.m[i] = 1

\* dict.get(key, default)
DictGet(dict, key, default) == IF key \in DOMAIN dict THEN dict[key] ELSE default

\* A variant whose thresholds are met by a change of exactly 10%.
GetChangeInclusive(runs, run1_id, run2_id) ==
    LET time1 == DictGet(runs[run1_id], "projected_time_ms", 0)
        time2 == DictGet(runs[run2_id], "projected_time_ms", 0)
    IN  IF run1_id \notin DOMAIN runs /\ run2_id \in DOMAIN runs THEN "new"
        ELSE IF run1_id \in DOMAIN runs /\ run2_id \notin DOMAIN runs
        THEN "removed"
        ELSE IF run1_id \notin DOMAIN runs \/ time1 = 0 THEN "stable"
        ELSE IF 10 * (time1 - time2) >= time1 THEN "improved"
        ELSE IF 10 * (time2 - time1) >= time1 THEN "regressed"
        ELSE "stable"

\* FunctionComparison.get_change, the status it returns. percent_change is
\* the double ((time2 - time1) / time1) * 100; the difference of the two
\* whole numbers is exact, and the sign of a double goes through its division
\* and product unchanged, so it is computed on the magnitude.
GetChange(runs, run1_id, run2_id) ==
    LET run1_exists == run1_id \in DOMAIN runs
        run2_exists == run2_id \in DOMAIN runs
        time1 == DictGet(runs[run1_id], "projected_time_ms", 0)
        time2 == DictGet(runs[run2_id], "projected_time_ms", 0)
        magnitude == DoubleMulInt(100, DoubleDiv(Abs(time2 - time1), time1))
    IN  IF ~run1_exists /\ run2_exists THEN "new"
        ELSE IF run1_exists /\ ~run2_exists THEN "removed"
        ELSE IF ~run1_exists /\ ~run2_exists THEN "stable"
        ELSE IF time1 = 0 THEN "stable"
        ELSE IF time2 < time1 /\ DoubleGreaterInt(magnitude, 10) THEN "improved"
        ELSE IF time2 > time1 /\ DoubleGreaterInt(magnitude, 10) THEN "regressed"
        ELSE "stable"

\* What get_change is given: the metrics of the function in none, one or
\* both of run_1 and run_2, each with a projected_time_ms or without one.
ChangeInputs ==
    {[kind |-> "get_change", runs |-> [id \in ids |-> metrics[id]]] :
        ids \in SUBSET {"run_1", "run_2"},
        metrics \in [{"run_1", "run_2"} ->
                        {[call_count |-> 1]} \cup
                        {[projected_time_ms |-> t] : t \in 0..MaxMs}]}

GetChangeCall ==
    /\ input.kind = "get_change"
    /\ output = NoOutput
    /\ output' = [kind |-> "change",
                  status |-> GetChange(input.runs, "run_1", "run_2")]
    /\ UNCHANGED <<tracerVars, entry, pair, scenario, input>>

\* ------------------------------------------------------------ core/config.py
\* PipelineScopeConfig(), the fields the tracer and the extrapolation read and
\* the two thresholds; min_time_percentage is a fraction, kept exactly.
Defaults ==
    [sample_size |-> 100,
     expected_size |-> 1000000,
     min_time_threshold_ms |-> 1,
     min_time_percentage |-> Rat(1, 2),
     ignore_modules |-> DefaultConfig.ignore_modules,
     collapse_stdlib |-> DefaultConfig.collapse_stdlib]

\* cls(**data) for a mapping whose keys are all fields.
NewConfig(data) == [f \in DOMAIN Defaults |-> DictGet(data, f, Defaults[f])]

\* A variant that stops at the first range violated.
ValidateFirst(c) ==
    IF c.sample_size <= 0 THEN <<"sample_size must be > 0">>
    ELSE IF c.expected_size <= 0 THEN <<"expected_size must be > 0">>
    ELSE IF c.min_time_threshold_ms < 0
    THEN <<"min_time_threshold_ms must be >= 0">>
    ELSE IF ~(/\ ~RatLess(c.min_time_percentage, RatOf(0))
              /\ ~RatLess(RatOf(100), c.min_time_percentage))
    THEN <<"min_time_percentage must be between 0 and 100">>
    ELSE <<>>

\* PipelineScopeConfig.validate
Validate(c) ==
    (IF c.sample_size <= 0 THEN <<"sample_size must be > 0">> ELSE <<>>)
    \o (IF c.expected_size <= 0 THEN <<"expected_size must be > 0">> ELSE <<>>)
    \o (IF c.min_time_threshold_ms < 0
        THEN <<"min_time_threshold_ms must be >= 0">> ELSE <<>>)
    \o (IF ~(/\ ~RatLess(c.min_time_percentage, RatOf(0))
             /\ ~RatLess(RatOf(100), c.min_time_percentage))
        THEN <<"min_time_percentage must be between 0 and 100">> ELSE <<>>)

\* PipelineScopeConfig.load for the file at config_path (given or discovered):
\* the configuration returned and the warnings issued. A file that cannot be
\* opened or parsed, one that is no mapping and one with a key that is no
\* field all raise inside the try block.
Load(file) ==
    IF ~file.exists THEN [config |-> Defaults, warnings |-> <<>>]
    ELSE IF /\ file.parses
            /\ file.mapping
            /\ DOMAIN file.data \subseteq DOMAIN Defaults
    THEN [config |-> NewConfig(file.data),
          warnings |-> Validate(NewConfig(file.data))]
    ELSE [config |-> Defaults, warnings |-> <<"Failed to load config">>]

\* The values a file gives to the four numeric fields and to a key that is no
\* field.
FileValues ==
    [sample_size : {-1, 0, 5},
     expected_size : {-1, 0, 7},
     min_time_threshold_ms : {-1, 0},
     min_time_percentage : {RatOf(-1), RatOf(0), RatOf(100), RatOf(101)},
     verbose : {1}]

\* The files load may find: none, an unreadable one, one that holds a list,
\* and mappings of any of the keys above.
ConfigFiles ==
    {[exists |-> e, parses |-> e /\ p, mapping |-> FALSE, data |-> <<>>] :
        e \in BOOLEAN, p \in BOOLEAN}
    \cup {[exists |-> TRUE, parses |-> TRUE, mapping |-> TRUE,
           data |-> [k \in keys |-> v[k]]] :
            keys \in SUBSET DOMAIN CHOOSE any \in FileValues : TRUE,
            v \in FileValues}

LoadInputs == [kind : {"load"}, file : ConfigFiles]

\* config = PipelineScopeConfig.load(path); errors = config.validate()
LoadCall ==
    /\ input.kind = "load"
    /\ output = NoOutput
    /\ LET loaded == Load(input.file)
       IN  output' = [kind |-> "config",
                      config |-> loaded.config,
                      warnings |-> loaded.warnings,
                      errors |-> Validate(loaded.config)]
    /\ UNCHANGED <<tracerVars, entry, pair, scenario, input>>

\* ------------------------------------------------------------ core/entrypoint.py
\* A frame of the entry point's own code.
EntryFrame(name, line) ==
    [f_code |-> [co_filename |-> "/w/pipelinescope/core/entrypoint.py",
                 co_name |-> name, co_firstlineno |-> line],
     f_globals_name |-> "pipelinescope.core.entrypoint",
     self_class |-> IF name = "start@module" THEN NoClass
                    ELSE "PipelineProfiler"]

NoSnapshot == ResourceSnapshot(0, 0, <<>>, <<>>)

\* The files start() is pointed at: none, and one that sets sample_size.
EntryFiles ==
    {[exists |-> FALSE, parses |-> FALSE, mapping |-> FALSE, data |-> <<>>],
     [exists |-> TRUE, parses |-> TRUE, mapping |-> TRUE,
      data |-> [sample_size |-> 5]]}

\* Variants of the two guards of start() that never hold.
EntryNeverActive(e) == FALSE
AtexitNeverRegistered(e) == FALSE

\* PipelineProfiler.start, line 35: `if self.active`
EntryActive(e) == e.active

\* PipelineProfiler.start, line 60: hasattr(self, "_atexit_registered")
AtexitRegistered(e) == e.atexit_registered

\* What the hook of the running Profiler makes of a call of the module's
\* start() that returns at once: CALL of start and of PipelineProfiler.start,
\* then their two RETURN events.
TracerAfterIdleStart(tr, cfg) ==
    TracerAfterReturn(
        TracerAfterReturn(
            TracerAfterCall(
                TracerAfterCall(tr, cfg, EntryFrame("start@module", 132), 0,
                                NoSnapshot),
                cfg, EntryFrame("start", 28), 0, NoSnapshot),
            0),
        0)

\* PipelineProfiler.start(config_path) with `file` at the path. The Profiler
\* made at line 55 is started at line 57 and sees no CALL event of start's
\* own frames; their RETURN events find its call_stack empty.
StartEntry(e, file) ==
    IF EntryActive(e)
    THEN [e EXCEPT !.profiler = <<TracerAfterIdleStart(@[1], e.config[1])>>,
                   !.restarts = @ + 1,
                   !.before = e.runs,
                   !.last = "start"]
    ELSE [e EXCEPT !.config = <<Load(file).config>>,
                   !.loads = @ + 1,
                   !.profiler = <<NewTracer>>,
                   !.created = @ + 1,
                   !.hook = TRUE,
                   !.active = TRUE,
                   !.raised = FALSE,
                   !.atexit = IF AtexitRegistered(e) THEN @ ELSE @ + 1,
                   !.atexit_registered = TRUE,
                   !.session = @ + 1,
                   !.runs = 0,
                   !.restarts = 0,
                   !.before = 0,
                   !.last = "start"]

\* The steps of _finalize that write: mkdir of the run directory, line 113,
\* serialize_profiling_data, line 116, and generate_static_report, line 120.
\* An exception leaves the function at the step that raises it.
OutputSteps == <<"mkdir", "serialize", "report">>

\* A variant of _finalize without the finally clause (as the definition at
\* lines 71-85, which the one at lines 87-126 replaces).
AfterNoFinally(e) == e

\* PipelineProfiler._finalize, lines 124-126: the finally clause.
AfterFinally(e) == [e EXCEPT !.profiler = <<>>, !.config = <<>>]

\* PipelineProfiler._finalize, lines 111-113: run_<int(time.time())> under
\* output_dir; the directory is the second of the clock.
RunDirectory(e) == e.clock

\* PipelineProfiler._finalize, the definition at lines 87-126: profiler.stop()
\* removes the hook and gives the statistics of the session; with none there
\* is no output, otherwise the run directory is made and written, up to the
\* step `fail` that raises ("none": no step raises; the dashboard is enabled,
\* the default). The CALL events of stop's own frames are ignored by the
\* tracer, which is dropped at the end. An output is a written
\* profile_data.json, with or without summary.html beside it.
Finalize(e, fail) ==
    IF ~e.active \/ e.profiler = <<>> \/ e.config = <<>>
    THEN [e EXCEPT !.raised = FALSE]
    ELSE LET tr == e.profiler[1]
             finalized ==
                 Finalized(FinalizeResourceMetrics(tr.function_stats),
                           tr.call_edges)
             stopped == [e EXCEPT !.active = FALSE, !.hook = FALSE,
                                  !.raised = FALSE]
         IN  IF finalized = <<>> THEN AfterFinally(stopped)
             ELSE AfterFinally(
                 [stopped EXCEPT
                     !.made = IF fail = "mkdir" THEN @
                              ELSE @ \cup {RunDirectory(e)},
                     !.outputs =
                         IF fail \in {"mkdir", "serialize"} THEN @
                         ELSE Append(@, [session |-> e.session,
                                         function_stats |-> finalized,
                                         call_edges |-> tr.call_edges,
                                         runs |-> e.runs,
                                         restarts |-> e.restarts,
                                         before |-> e.before,
                                         dir |-> RunDirectory(e),
                                         html |-> fail = "none"]),
                     !.raised = fail /= "none"])

\* PipelineProfiler.stop
StopEntry(e, fail) ==
    IF ~e.active \/ e.profiler = <<>> THEN [e EXCEPT !.raised = FALSE]
    ELSE Finalize(e, fail)

\* The steps that may raise in the next finalization: any in the program
\* of the outputs, none in the program of the sessions.
Failures(e) ==
    IF scenario = "outputs"
    THEN {"none"} \cup {OutputSteps[i] : i \in 1..Len(OutputSteps)}
    ELSE {"none"}

\* The handlers of the atexit table, run one after the other.
RECURSIVE RunAtexit(_, _, _)
RunAtexit(e, n, fail) ==
    IF n = 0 THEN e ELSE RunAtexit(Finalize(e, fail), n - 1, fail)

\* The program calls entrypoint.start(config_path).
EntryStart ==
    /\ ~entry.exited
    /\ IF entry.active
       THEN scenario /= "outputs" /\ entry.restarts < MaxRestarts
       ELSE entry.session < MaxSessions
    /\ \E file \in EntryFiles : entry' = StartEntry(entry, file)
    /\ UNCHANGED <<tracerVars, pair, scenario, input, output>>

\* The program calls entrypoint.stop().
EntryStop ==
    /\ ~entry.exited
    /\ \E fail \in Failures(entry) :
           entry' = [StopEntry(entry, fail) EXCEPT !.last = "stop"]
    /\ UNCHANGED <<tracerVars, pair, scenario, input, output>>

\* The program calls the user function A; the running Profiler's hook, if
\* there is one, gets the CALL event.
EntryCall ==
    /\ ~entry.exited
    /\ entry.depth = 0
    /\ entry.active
    /\ entry.runs < (IF scenario = "outputs" THEN 1 ELSE MaxEntryCalls)
    /\ entry' = [entry EXCEPT
                    !.profiler =
                        <<TracerAfterCall(@[1], entry.config[1], Frame("A"),
                                          0, NoSnapshot)>>,
                    !.runs = @ + 1,
                    !.depth = 1,
                    !.last = "call"]
    /\ UNCHANGED <<tracerVars, pair, scenario, input, output>>

\* A returns; the hook, if there is one, gets the RETURN event.
EntryReturn ==
    /\ ~entry.exited
    /\ entry.depth = 1
    /\ entry' = [entry EXCEPT
                    !.profiler = IF @ = <<>> THEN @
                                 ELSE <<TracerAfterReturn(@[1], 0)>>,
                    !.depth = 0,
                    !.last = "return"]
    /\ UNCHANGED <<tracerVars, pair, scenario, input, output>>

\* The interpreter exits and runs its atexit handlers.
EntryExit ==
    /\ ~entry.exited
    /\ entry.depth = 0
    /\ \E fail \in Failures(entry) :
           entry' = [RunAtexit(entry, entry.atexit, fail) EXCEPT
                        !.exited = TRUE, !.last = "exit"]
    /\ UNCHANGED <<tracerVars, pair, scenario, input, output>>

\* A second passes on the clock time.time() reads. The clock is read in
\* _finalize only, for the name of the run directory: the seconds that pass
\* during a session are let pass before it, and only once a directory of
\* the current second was made.
EntryTick ==
    /\ ~entry.exited
    /\ ~entry.active
    /\ entry.depth = 0
    /\ entry.clock \in entry.made
    /\ entry.clock < MaxClock
    /\ entry' = [entry EXCEPT !.clock = @ + 1]
    /\ UNCHANGED <<tracerVars, pair, scenario, input, output>>

InitEntry ==
    /\ scenario = "none"
    /\ config = DefaultConfig
    /\ InitTracer
    /\ input = NoInput
    /\ output = NoOutput

NextEntry ==
    \/ EntryStart
    \/ EntryStop
    \/ EntryCall
    \/ EntryReturn
    \/ EntryExit

SpecEntry == InitEntry /\ [][NextEntry]_vars

\* The program of the outputs: sessions of at most one call of A and one
\* start() each, in which a step of the output generation may raise, and
\* between which seconds pass.
InitOutputs ==
    /\ scenario = "outputs"
    /\ config = DefaultConfig
    /\ InitTracer
    /\ input = NoInput
    /\ output = NoOutput

NextOutputs ==
    \/ EntryStart
    \/ EntryStop
    \/ EntryCall
    \/ EntryReturn
    \/ EntryExit
    \/ EntryTick

SpecOutputs == InitOutputs /\ [][NextOutputs]_vars

\* ------------------------------------------------------------ two Profilers
\* A process with two Profiler instances: sys.setprofile holds one callback
\* for the process, hook is the instance whose callback it is (0: none).
\* The program calls start() and stop() of either instance and A, nested at
\* most MaxPairDepth deep, MaxPairCalls calls in all; every call and return is
\* reported to the callback installed at that moment.
MaxPairCalls == 4
MaxPairDepth == 1

\* Profiler._profile_callback of the instance whose callback is installed.
Deliver(p, event, frame) ==
    IF p.hook = 0 THEN p
    ELSE [p EXCEPT !.profilers[p.hook].tracer =
                      IF event = "call"
                      THEN TracerAfterCall(@, DefaultConfig, frame, 0, NoSnapshot)
                      ELSE TracerAfterReturn(@, 0)]

\* Profiler.start of instance i, lines 38-45, between the CALL and the RETURN
\* event of its frame.
StartProfiler(p, i) ==
    LET called == Deliver(p, "call", Frame("start"))
        body == IF called.profilers[i].active THEN called
                ELSE [called EXCEPT !.profilers[i].active = TRUE,
                                    !.hook = i]
    IN  Deliver(body, "return", Frame("start"))

\* Profiler.stop of instance i, lines 47-77.
StopProfiler(p, i) ==
    LET called == Deliver(p, "call", Frame("stop"))
        tr == called.profilers[i].tracer
        body == IF ~called.profilers[i].active
                THEN [called EXCEPT !.profilers[i].result = NoResult]
                ELSE [called EXCEPT
                        !.profilers[i].active = FALSE,
                        !.hook = 0,
                        !.profilers[i].result =
                            ProfilingResult(
                                Finalized(FinalizeResourceMetrics(tr.function_stats),
                                          tr.call_edges),
                                tr.call_edges, 0, 0, 0),
                        !.profilers[i].tracer =
                            [tr EXCEPT
                               !.function_stats = StatsAfterStop(@),
                               !.call_edges = EdgesAfterStop(@),
                               !.call_stack = StackAfterStop(@)]]
    IN  Deliver(body, "return", Frame("stop"))

PairStart(i) ==
    /\ pair.calls < MaxPairCalls
    /\ pair' = [StartProfiler(pair, i) EXCEPT !.calls = @ + 1,
                                               !.last = "start"]
    /\ UNCHANGED <<tracerVars, entry, scenario, input, output>>

PairStop(i) ==
    /\ pair.calls < MaxPairCalls
    /\ pair' = [StopProfiler(pair, i) EXCEPT !.calls = @ + 1,
                                              !.last = "stop"]
    /\ UNCHANGED <<tracerVars, entry, scenario, input, output>>

\* The program calls A.
PairCall ==
    /\ pair.calls < MaxPairCalls
    /\ pair.depth < MaxPairDepth
    /\ pair' = [Deliver(pair, "call", Frame("A")) EXCEPT !.calls = @ + 1,
                                                          !.depth = @ + 1,
                                                          !.last = "call"]
    /\ UNCHANGED <<tracerVars, entry, scenario, input, output>>

\* A returns.
PairReturn ==
    /\ pair.depth > 0
    /\ pair' = [Deliver(pair, "return", Frame("A")) EXCEPT !.depth = @ - 1,
                                                            !.last = "return"]
    /\ UNCHANGED <<tracerVars, entry, scenario, input, output>>

InitPair ==
    /\ scenario = "none"
    /\ config = DefaultConfig
    /\ InitTracer
    /\ input = NoInput
    /\ output = NoOutput

NextPair ==
    \/ \E i \in 1..2 : PairStart(i)
    \/ \E i \in 1..2 : PairStop(i)
    \/ PairCall
    \/ PairReturn

SpecPair == InitPair /\ [][NextPair]_vars

\* ------------------------------------------------------------ the ignore policy
\* What _should_ignore is given: identities of the profiler's package, of
\* its submodules and of a user module, under every configuration.
IgnoreInputs ==
    [kind : {"should_ignore"},
     key : {FunctionKey(module, filename, "f", 1, NoClass) :
               module \in {"pipelinescope", "pipelinescope.core",
                           "pipelinescope.core.profiler",
                           "pipelinescope.utils.logger",
                           "pipelinescope.cli.diff", "app"},
               filename \in {"/path/to/profiler.py",
                             "/w/pipelinescope/__init__.py", "/w/app.py"}},
     config : [ignore_modules : {{}, {"venv"}, DefaultConfig.ignore_modules},
               collapse_stdlib : BOOLEAN]]

ShouldIgnoreCall ==
    /\ input.kind = "should_ignore"
    /\ output = NoOutput
    /\ output' = [kind |-> "ignore",
                  value |-> ShouldIgnore(input.config, input.key)]
    /\ UNCHANGED <<tracerVars, entry, pair, scenario, input>>

\* ------------------------------------------------------------ resource_monitor.py, called
\* A monitor on its own: ResourceMonitor(enable_cpu, enable_gpu) constructed
\* on any host, then snapshot() called with any readings.
MonitorInputs ==
    [kind : {"monitor"}, enable_cpu : BOOLEAN, enable_gpu : BOOLEAN,
     probe : Probes]

SnapshotCall ==
    /\ input.kind = "monitor"
    /\ IF output = NoOutput THEN TRUE ELSE output.n < MaxSnapshots
    /\ \E rd \in Readings :
           LET monitor == NewMonitor(input.enable_cpu, input.enable_gpu,
                                     input.probe)
           IN  output' = [kind |-> "snapshot", monitor |-> monitor, rd |-> rd,
                          n |-> IF output = NoOutput THEN 1 ELSE output.n + 1,
                          value |-> Snapshot(monitor, rd)]
    /\ UNCHANGED <<tracerVars, entry, pair, scenario, input>>

\* The functions called on their own, each with any of its inputs.
InitFunctions ==
    /\ scenario = "none"
    /\ config = DefaultConfig
    /\ InitTracer
    /\ input \in MonitorInputs \cup ChangeInputs \cup IgnoreInputs
                 \cup LoadInputs \cup AggregateInputs
    /\ output = NoOutput

NextFunctions ==
    \/ SnapshotCall
    \/ GetChangeCall
    \/ ShouldIgnoreCall
    \/ LoadCall
    \/ AggregateByModuleCall

SpecFunctions == InitFunctions /\ [][NextFunctions]_vars

\* ------------------------------------------------------------ properties
KeyA == ResolveKey(Frame("A"))
KeyB == ResolveKey(Frame("B"))
KeyC == ResolveKey(Frame("C"))

HasResult == result.kind = "ProfilingResult"

\* The time on the edges of a result whose caller is f.
EdgeTimeFrom(res, f) ==
    SumOver({e \in DOMAIN res.call_edges : res.call_edges[e].caller = f},
            [e \in DOMAIN res.call_edges |-> res.call_edges[e].total_time_ms])

\* The calls on the edges whose callee is g.
EdgeCallsInto(ce, g) ==
    SumOver({e \in DOMAIN ce : ce[e].callee = g},
            [e \in DOMAIN ce |-> ce[e].call_count])

\* The step in which the body of Profiler.start / Profiler.stop runs.
StartStep ==
    /\ frames /= <<>>
    /\ Top(frames).code = "start" /\ Top(frames).pc = "body"
    /\ frames' /= frames
StopStep ==
    /\ frames /= <<>>
    /\ Top(frames).code = "stop" /\ Top(frames).pc = "body"
    /\ frames' /= frames

\* The hook reports the call of c / the return of the top frame.
CallEvent(c) ==
    hook /\ Len(frames') = Len(frames) + 1 /\ Top(frames').code = c
ReturnEvent ==
    hook /\ frames /= <<>> /\ Len(frames') = Len(frames) - 1

\* C1: in the result of stop(), every function's self_time_ms is its
\* total_time_ms minus the total_time_ms of the edges whose caller it is.
C1_SelfTimeIsTotalMinusCallees ==
    HasResult =>
        \A f \in DOMAIN result.function_stats :
            result.function_stats[f].self_time_ms =
                result.function_stats[f].total_time_ms - EdgeTimeFrom(result, f)

\* C1 witness: a result in which a function has callee time to subtract and
\* another function is the callee.
C1_Witness ==
    /\ HasResult
    /\ \E f \in DOMAIN result.function_stats :
           /\ EdgeTimeFrom(result, f) > 0
           /\ result.function_stats[f].total_time_ms > EdgeTimeFrom(result, f)
           /\ \E e \in DOMAIN result.call_edges : e[1] = f /\ e[2] /= f

\* C2: in the result of stop(), total_time_ms(f) is the sum of (return time -
\* call time) over the invocations of f called and returned in the session,
\* also when tracked functions call ignored ones.
C2_TotalIsSumOfDurations ==
    (~active /\ HasResult) =>
        \A f \in DOMAIN result.function_stats :
            result.function_stats[f].total_time_ms = ValueAt(gTotal, f)

\* C3: the RETURN event of a function whose CALL event was ignored changes
\* neither the call stack nor an aggregate nor an edge.
C3_IgnoredReturnChangesNothing ==
    [][(ReturnEvent /\ Top(frames).ign /\ Top(frames).sess = session)
          => UNCHANGED <<call_stack, function_stats, call_edges>>]_vars

\* C4 (state part): no identity that matches the ignore policy is a key of the
\* aggregate map, an endpoint of an edge or on the call stack.
C4_NoIgnoredIdentity ==
    /\ \A k \in DOMAIN function_stats : ~ShouldIgnore(config, k)
    /\ \A e \in DOMAIN call_edges :
           ~ShouldIgnore(config, e[1]) /\ ~ShouldIgnore(config, e[2])
    /\ \A i \in 1..Len(call_stack) : ~ShouldIgnore(config, call_stack[i][1])

\* C4: an identity that matches the ignore policy is never a key of the
\* aggregate map, an edge endpoint or on the call stack, and the CALL event of
\* such an identity changes none of the three.
C4_IgnoredNeverTracked ==
    /\ []C4_NoIgnoredIdentity
    /\ [][\A c \in Codes :
            (CallEvent(c) /\ ShouldIgnore(config, ResolveKey(Frame(c))))
                => UNCHANGED <<function_stats, call_edges, call_stack>>]_vars

\* C4 witness: the CALL event of the dependency's function has been ignored
\* under a tracked caller.
C4_Witness ==
    /\ hook
    /\ frames /= <<>>
    /\ Top(frames).code = "V" /\ Top(frames).ign /\ Top(frames).sess = session
    /\ call_stack /= <<>>
    /\ DOMAIN call_edges /= {}

\* C5: self_time_ms(f) >= 0 for every function of every result of stop(),
\* wherever in the run stop() is called.
C5_SelfTimeNonNegative ==
    HasResult =>
        \A f \in DOMAIN result.function_stats :
            result.function_stats[f].self_time_ms >= 0

\* C6: self_time_ms(f) <= total_time_ms(f) for every function of every result
\* of stop().
C6_SelfTimeAtMostTotal ==
    HasResult =>
        \A f \in DOMAIN result.function_stats :
            result.function_stats[f].self_time_ms
                <= result.function_stats[f].total_time_ms

\* C6 witness: a result with a function whose self time is below its total.
C6_Witness ==
    /\ HasResult
    /\ \E f \in DOMAIN result.function_stats :
           result.function_stats[f].self_time_ms
               < result.function_stats[f].total_time_ms

\* C7: while only tracked functions are called, edge(f,g).call_count is the
\* number of calls of g made by f, and call_count(g) is the sum of
\* edge(f,g).call_count over f plus the calls of g made with no tracked
\* caller; A calling B twice and B calling C three times gives call_count(B)
\* = 2, call_count(C) = 6, edge(A,B).call_count = 2, edge(B,C).call_count = 6.
C7_EdgeAndCallCounts ==
    /\ (active /\ ~gIgnCall) =>
          /\ DOMAIN call_edges = DOMAIN gEdgeCalls
          /\ \A e \in DOMAIN call_edges :
                 call_edges[e].call_count = gEdgeCalls[e]
          /\ DOMAIN function_stats = DOMAIN gCalls
          /\ \A g \in DOMAIN function_stats :
                 /\ function_stats[g].call_count = gCalls[g]
                 /\ function_stats[g].call_count =
                        EdgeCallsInto(call_edges, g) + ValueAt(gRootCalls, g)
    /\ (scenario = "abc" /\ HasResult) =>
          /\ result.function_stats[KeyB].call_count = 2
          /\ result.function_stats[KeyC].call_count = 6
          /\ result.call_edges[<<KeyA, KeyB>>].call_count = 2
          /\ result.call_edges[<<KeyB, KeyC>>].call_count = 6

\* C7 witness: the end-to-end scenario has run to its result.
C7_Witness ==
    /\ scenario = "abc" /\ HasResult
    /\ result.function_stats[KeyC].call_count = 6

\* C8: a function that calls itself to depth n and returns before stop() has
\* call_count n + 1 and as total_time_ms the sum of the elapsed times of its
\* n + 1 frames, nested time counted once per frame.
C8_RecursionAddsEveryFrame ==
    (scenario = "rec" /\ ~active /\ HasResult) =>
        /\ DOMAIN result.function_stats \subseteq {KeyA}
        /\ \A f \in DOMAIN result.function_stats :
               /\ result.function_stats[f].call_count = gCalls[f]
               /\ result.function_stats[f].total_time_ms = ValueAt(gTotal, f)

\* C8 witness: three nested invocations whose times add up to more than the
\* session lasted.
C8_Witness ==
    /\ scenario = "rec" /\ ~active /\ HasResult
    /\ KeyA \in DOMAIN result.function_stats
    /\ result.function_stats[KeyA].call_count >= 3
    /\ result.function_stats[KeyA].total_time_ms > result.total_runtime_ms

C10_StopReturnsResultIffActive ==
    /\ [][StopStep =>
            /\ (result'.kind = "ProfilingResult") <=> active
            /\ ~active =>
                  /\ result' = NoResult
                  /\ UNCHANGED <<active, hook, function_stats, call_edges,
                                 call_stack, func_key_cache, start_time,
                                 end_time>>]_vars
    /\ [](gResults <= session)
    /\ [](last \in {"stop", "stop_none"} => ~active)

\* C10 witness: a stop() directly after a stop() that returned a result has
\* returned None.
C10_Witness ==
    /\ last = "stop_none"
    /\ gResults = 1
    /\ session = 1

\* C11: a stop() that returns a result leaves the tracer inactive, the hook
\* removed and the aggregate map, the edge table and the call stack empty,
\* whatever the session saw and whichever frames were still open.
C11_StopLeavesTracerEmpty ==
    [][(StopStep /\ active)
          => /\ ~active' /\ ~hook'
             /\ result'.kind = "ProfilingResult"
             /\ function_stats' = <<>>
             /\ call_edges' = <<>>
             /\ call_stack' = <<>>]_vars

\* C11 witness: stop() has returned a result in which a function was counted
\* whose frame was still open when stop() was called.
C11_Witness ==
    /\ last = "stop"
    /\ call_stack = <<>>
    /\ \E f \in DOMAIN result.function_stats :
           result.function_stats[f].active_calls > 0

\* C12: the result of every session is the result a newly constructed tracer
\* with the same configuration gives for the events of that session: the same
\* identities (enclosing-type names included), counts, times and edges.
C12_SessionAsOnNewTracer ==
    (~active /\ HasResult) =>
        /\ result.function_stats = gFresh.function_stats
        /\ result.call_edges = gFresh.call_edges

\* C13: a ProfilingResult the caller holds stays as it was returned (the keys,
\* call_count, total_time_ms and self_time_ms of its function statistics, and
\* its call edges), whatever start(), call/return events and stop() follow on
\* the same tracer.
C13_ResultIsSnapshot ==
    [][kept.kind = "ProfilingResult" => kept' = kept]_vars

\* C13 witness: a second session that called the functions of the first
\* result again, along the same edge, has been stopped.
C13_Witness ==
    /\ gResults = 2 /\ HasResult /\ kept.kind = "ProfilingResult"
    /\ \E k \in DOMAIN kept.function_stats :
           /\ k \in DOMAIN result.function_stats
           /\ result.function_stats[k].call_count > 0
    /\ \E e \in DOMAIN kept.call_edges : e \in DOMAIN result.call_edges

\* C14: a RETURN event received while the call stack is empty changes neither
\* the aggregate map nor the edge table nor the call stack.
C14_ReturnOnEmptyStackIsNoop ==
    [][(ReturnEvent /\ call_stack = <<>>)
          => UNCHANGED <<function_stats, call_edges, call_stack,
                         func_key_cache, active, hook>>]_vars

\* C14 witness: a function that was running when start() was called has
\* returned, after the session had counted a call, onto the empty call stack.
C14_Witness ==
    /\ last = "return_empty"
    /\ hook
    /\ DOMAIN function_stats /= {}

\* The eligible functions of the input of extract_hotspots, largest projected
\* self time first.
EligibleHotspots == GetAllFunctions(input.items, input.extrapolated_stats)

\* C15: extract_hotspots returns the top_n eligible functions with the
\* largest projected_self_time_ms, largest first: the list is in descending
\* order, no eligible function left out has a larger projected self time than
\* one returned, and with more than top_n eligible functions of pairwise
\* different self times the list is the first top_n entries of
\* get_all_functions.
C15_HotspotsAreTheLargest ==
    output.kind = "hotspots" =>
        /\ \A i, j \in 1..Len(output.value) :
               i < j => ~RatLess(output.value[i].projected_self_time_ms,
                                 output.value[j].projected_self_time_ms)
        /\ \A i \in 1..Len(output.value), j \in 1..Len(EligibleHotspots) :
               (\A l \in 1..Len(output.value) :
                    output.value[l].func_key /= EligibleHotspots[j].func_key)
                   => ~RatLess(output.value[i].projected_self_time_ms,
                               EligibleHotspots[j].projected_self_time_ms)
        /\ (/\ Len(EligibleHotspots) > input.top_n
            /\ \A i, j \in 1..Len(EligibleHotspots) :
                   i /= j => EligibleHotspots[i].projected_self_time_ms
                                 /= EligibleHotspots[j].projected_self_time_ms)
               => output.value = SubSeq(EligibleHotspots, 1, input.top_n)

\* The observed statistics and the sizes extrapolate was given.
ObservedOf(k) == input.result.function_stats[k]
SampleSize == input.config.sample_size
ExpectedSize == input.config.expected_size

\* C16: for sample_size > 0 and expected_size > 0 every function gets
\* projected_calls = floor(call_count * expected_size / sample_size),
\* projected_time_ms = total_time_ms * expected_size / sample_size and
\* projected_self_time_ms = self_time_ms * expected_size / sample_size.
C16_LinearScaling ==
    (output.kind = "extrapolated" /\ SampleSize > 0 /\ ExpectedSize > 0) =>
        \A k \in DOMAIN output.value :
            /\ output.value[k].projected_calls =
                   (ObservedOf(k).call_count * ExpectedSize) \div SampleSize
            /\ output.value[k].projected_time_ms =
                   Rat(ObservedOf(k).total_time_ms * ExpectedSize, SampleSize)
            /\ output.value[k].projected_self_time_ms =
                   Rat(ObservedOf(k).self_time_ms * ExpectedSize, SampleSize)

\* C17: with sample_size <= 0 every projected value (calls, time, self time)
\* is the observed value, whatever expected_size is.
C17_NoScalingWithoutSample ==
    (output.kind = "extrapolated" /\ SampleSize <= 0) =>
        \A k \in DOMAIN output.value :
            /\ output.value[k].projected_calls = ObservedOf(k).call_count
            /\ output.value[k].projected_time_ms = RatOf(ObservedOf(k).total_time_ms)
            /\ output.value[k].projected_self_time_ms =
                   RatOf(ObservedOf(k).self_time_ms)

\* C17 witness: extrapolate has returned for a sample_size of 0 or below, an
\* expected_size above 1 and a function that was called.
C17_Witness ==
    /\ output.kind = "extrapolated"
    /\ SampleSize <= 0 /\ ExpectedSize > 1
    /\ \E k \in DOMAIN output.value : output.value[k].projected_calls > 1

\* The sum of the projected self times and of the percentages of an output
\* of extrapolate.
OutputSelfTime ==
    RatSumOver(DOMAIN output.value,
               [k \in DOMAIN output.value |-> output.value[k].projected_self_time_ms])
OutputPercentage ==
    RatSumOver(DOMAIN output.value,
               [k \in DOMAIN output.value |-> output.value[k].percentage_of_total])

\* C18: the percentage_of_total values sum to 100 when the total projected
\* self time is > 0, and every one is 0 when that total is 0.
C18_PercentagesSumTo100 ==
    output.kind = "extrapolated" =>
        /\ RatLess(RatOf(0), OutputSelfTime) => OutputPercentage = RatOf(100)
        /\ OutputSelfTime = RatOf(0) =>
               \A k \in DOMAIN output.value :
                   output.value[k].percentage_of_total = RatOf(0)

\* C18 witness: three functions with different shares of a positive total,
\* under a scale factor other than 1.
C18_Witness ==
    /\ output.kind = "extrapolated"
    /\ SampleSize > 0 /\ ExpectedSize > SampleSize
    /\ RatLess(RatOf(0), OutputSelfTime)
    /\ \E k1, k2 \in DOMAIN output.value :
           /\ RatLess(RatOf(0), output.value[k1].percentage_of_total)
           /\ RatLess(output.value[k1].percentage_of_total,
                      output.value[k2].percentage_of_total)

\* A call of extrapolate returns.
ExtrapolateStep == input.kind = "extrapolate" /\ output' /= output

\* C19: the extrapolated avg_cpu_percent, peak_memory_mb, avg_gpu_utilization
\* and peak_gpu_memory_mb are the observed ones for every function and scale
\* factor, and extrapolate leaves the ProfilingResult it is given as it was.
C19_ResourceMetricsUnscaled ==
    /\ [](output.kind = "extrapolated" =>
            \A k \in DOMAIN output.value :
                /\ output.value[k].avg_cpu_percent = ObservedOf(k).avg_cpu_percent
                /\ output.value[k].peak_memory_mb = ObservedOf(k).peak_memory_mb
                /\ output.value[k].avg_gpu_utilization =
                       ObservedOf(k).avg_gpu_utilization
                /\ output.value[k].peak_gpu_memory_mb =
                       ObservedOf(k).peak_gpu_memory_mb)
    /\ [][ExtrapolateStep => input' = input]_vars

\* C19 witness: a function with non-zero metrics has been extrapolated with a
\* scale factor above 1.
C19_Witness ==
    /\ output.kind = "extrapolated"
    /\ SampleSize > 0 /\ ExpectedSize > SampleSize
    /\ \E k \in DOMAIN output.value :
           /\ output.value[k].avg_cpu_percent > 0
           /\ output.value[k].peak_gpu_memory_mb /= <<>>
           /\ output.value[k].projected_calls > output.value[k].observed_calls

\* C20: with collapse_stdlib enabled no identity classified as
\* standard-library/framework (is_stdlib: an angle-bracket file name, a
\* standard-library module base name or a library path marker in the file
\* path) is tracked: none is a key of the aggregate map, an endpoint of an
\* edge or on the call stack.
C20_NoStdlibTracked ==
    config.collapse_stdlib =>
        /\ \A k \in DOMAIN function_stats : ~CheckStdlib(k)
        /\ \A e \in DOMAIN call_edges : ~CheckStdlib(e[1]) /\ ~CheckStdlib(e[2])
        /\ \A i \in 1..Len(call_stack) : ~CheckStdlib(call_stack[i][1])

\* The time on the edges whose callee is g.
EdgeTimeInto(ce, g) ==
    SumOver({e \in DOMAIN ce : ce[e].callee = g},
            [e \in DOMAIN ce |-> ce[e].total_time_ms])

\* C27: during a session, edge(f,g).total_time_ms is the sum of the elapsed
\* times of the returned invocations of g that were called with f on top of
\* the call stack, every such pair has an edge, and the edges into g never
\* hold more time than total_time_ms(g).
C27_EdgeTimeIsCalleesTime ==
    active =>
        /\ \A e \in DOMAIN call_edges :
               call_edges[e].total_time_ms = ValueAt(gEdgeTime, e)
        /\ \A e \in DOMAIN gEdgeTime : e \in DOMAIN call_edges
        /\ \A g \in DOMAIN function_stats :
               EdgeTimeInto(call_edges, g) <= function_stats[g].total_time_ms

\* C28: identities are cached by (file, function name, first line): an entry
\* of the cache never changes or disappears, the first frame of a triple
\* enters the identity resolved from it, and every tracked call is pushed
\* under the identity of the cache, whatever receiver the frame binds.
C28_IdentityOfFirstFrame ==
    /\ [][\A t \in DOMAIN func_key_cache :
            t \in DOMAIN func_key_cache' /\ func_key_cache'[t] = func_key_cache[t]]_vars
    /\ [][\A c \in Codes : CallEvent(c) =>
            /\ CacheKey(Frame(c)) \in DOMAIN func_key_cache'
            /\ CacheKey(Frame(c)) \notin DOMAIN func_key_cache =>
                   func_key_cache'[CacheKey(Frame(c))] = ResolveKey(Frame(c))
            /\ call_stack' /= call_stack =>
                   Top(call_stack')[1] = func_key_cache'[CacheKey(Frame(c))]]_vars

\* C28 witness: a call of the method on a SubClass instance is on the stack
\* under the identity resolved when it was first called on a TestClass
\* instance.
C28_Witness ==
    /\ hook
    /\ frames /= <<>>
    /\ Top(frames).code = "method@SubClass"
    /\ call_stack /= <<>>
    /\ Top(call_stack)[1].classname = "TestClass"
    /\ Top(call_stack)[1] \in DOMAIN function_stats

\* The sample buffer of k, empty for a function without aggregate.
BufferOf(fs, k) == IF k \in DOMAIN fs THEN fs[k].resource_samples ELSE <<>>

\* C29: the sample buffer of a function f grows, by one snapshot, exactly in
\* the CALL events of f (tracked, pushed on the stack) that bring the number
\* of f's own calls in the session to a multiple of 100; in no other call, in
\* no ignored call and in no RETURN event does a buffer grow.
C29_SampleEvery100thOwnCall ==
    [][\A k \in DOMAIN function_stats \cup DOMAIN function_stats' :
          /\ Len(BufferOf(function_stats', k)) > Len(BufferOf(function_stats, k))
               <=> \E c \in Codes :
                      /\ CallEvent(c)
                      /\ call_stack' = Append(call_stack, <<k, now>>)
                      /\ ValueAt(gCalls', k) % 100 = 0
          /\ Len(BufferOf(function_stats', k))
                 <= Len(BufferOf(function_stats, k)) + 1]_vars

\* C29 witness: A's 200th call has put a snapshot in its buffer, after calls
\* of B and an ignored call.
C29_Witness ==
    /\ active
    /\ ValueAt(gCalls, KeyA) = 200
    /\ Len(BufferOf(function_stats, KeyA)) = 1
    /\ ValueAt(gCalls, KeyB) > 0
    /\ gIgnCall

\* C30: a RETURN event that pops f leaves f's buffer empty, and a buffer
\* changes only by the snapshot appended in a CALL event of its function and
\* by being emptied at the function's RETURN.
C30_BufferEmptyAfterReturn ==
    /\ [][(ReturnEvent /\ call_stack /= <<>>) =>
            /\ Top(call_stack)[1] \in DOMAIN function_stats'
            /\ function_stats'[Top(call_stack)[1]].resource_samples = <<>>]_vars
    /\ [][\A k \in DOMAIN function_stats \cap DOMAIN function_stats' :
            \/ BufferOf(function_stats', k) = BufferOf(function_stats, k)
            \/ /\ ReturnEvent
               /\ call_stack /= <<>> /\ Top(call_stack)[1] = k
               /\ BufferOf(function_stats', k) = <<>>
            \/ /\ \E c \in Codes : CallEvent(c)
               /\ call_stack' = Append(call_stack, <<k, now>>)
               /\ Len(BufferOf(function_stats', k)) =
                      Len(BufferOf(function_stats, k)) + 1
               /\ SubSeq(BufferOf(function_stats', k), 1,
                         Len(BufferOf(function_stats, k))) =
                      BufferOf(function_stats, k)]_vars

\* C30 witness: A has returned from a call in which a snapshot was taken, and
\* its buffer is empty.
C30_Witness ==
    /\ active
    /\ last = "return"
    /\ KeyA \in DOMAIN function_stats
    /\ function_stats[KeyA].call_count >= 100
    /\ function_stats[KeyA].peak_memory_mb > 0
    /\ function_stats[KeyA].resource_samples = <<>>

\* C22: a snapshot in which a reading raised has cpu_percent = 0, memory_mb =
\* 0 and no accelerator entries, whichever reading it was; and a feature that
\* is disabled or whose probe failed at construction reads zero/empty in
\* every snapshot.
C22_FailureGivesZeroSnapshot ==
    output.kind = "snapshot" =>
        /\ (\/ /\ output.monitor.enable_cpu
               /\ output.rd.fail \in {"cpu_percent", "memory_info"}
            \/ /\ output.monitor.enable_gpu /\ output.monitor.gpu_available
               /\ output.rd.fail \in {"load", "memoryUsed"})
             => output.value = ResourceSnapshot(0, 0, <<>>, <<>>)
        /\ (~input.enable_cpu \/ ~input.probe.process_ok)
             => output.value.cpu_percent = 0 /\ output.value.memory_mb = 0
        /\ (~input.enable_gpu \/ input.probe.gpus = ProbeRaises)
             => /\ output.value.gpu_utilization = <<>>
                /\ output.value.gpu_memory_mb = <<>>

\* C21: an identity whose module is the pipelinescope package or one of its
\* submodules is ignored under every configuration.
C21_OwnModulesIgnored ==
    (/\ output.kind = "ignore"
     /\ \/ input.key.module = "pipelinescope"
        \/ StartsWith(input.key.module, "pipelinescope."))
        => output.value

\* C25: get_change gives "new" iff the function is in run 2 only, "removed"
\* iff it is in run 1 only, and with the function in both "improved" iff the
\* projected time fell by more than 10% of the time of run 1, "regressed" iff
\* it rose by more than 10%; in every other case "stable".
C25_ChangeStatus ==
    output.kind = "change" =>
        LET in1 == "run_1" \in DOMAIN input.runs
            in2 == "run_2" \in DOMAIN input.runs
            t1 == DictGet(input.runs["run_1"], "projected_time_ms", 0)
            t2 == DictGet(input.runs["run_2"], "projected_time_ms", 0)
        IN  /\ output.status = "new" <=> (~in1 /\ in2)
            /\ output.status = "removed" <=> (in1 /\ ~in2)
            /\ output.status = "improved" <=>
                   (in1 /\ in2 /\ t1 /= 0 /\ 10 * (t1 - t2) > t1)
            /\ output.status = "regressed" <=>
                   (in1 /\ in2 /\ t1 /= 0 /\ 10 * (t2 - t1) > t1)
            /\ output.status \in {"new", "removed", "improved", "regressed",
                                  "stable"}

\* C25 witness: a function in both runs whose time rose by exactly 10% is
\* stable.
C25_Witness ==
    /\ output.kind = "change"
    /\ DOMAIN input.runs = {"run_1", "run_2"}
    /\ input.runs["run_1"] = [projected_time_ms |-> 20]
    /\ input.runs["run_2"] = [projected_time_ms |-> 22]
    /\ output.status = "stable"

\* The messages validate owes a configuration: one for each range violated.
RangesViolated(c) ==
    {m \in {"sample_size must be > 0", "expected_size must be > 0",
            "min_time_threshold_ms must be >= 0",
            "min_time_percentage must be between 0 and 100"} :
        \/ m = "sample_size must be > 0" /\ c.sample_size < 1
        \/ m = "expected_size must be > 0" /\ c.expected_size < 1
        \/ m = "min_time_threshold_ms must be >= 0"
           /\ c.min_time_threshold_ms < 0
        \/ /\ m = "min_time_percentage must be between 0 and 100"
           /\ \/ RatLess(c.min_time_percentage, RatOf(0))
              \/ RatLess(RatOf(100), c.min_time_percentage)}

\* C26: load returns the default configuration for a missing file and for one
\* that cannot be parsed or constructed; for a parsed mapping of fields it
\* returns a configuration carrying the file's values, in range or not; and
\* validate reports exactly one message per violated range, none for a valid
\* configuration.
C26_ConfigErrorsNotFatal ==
    output.kind = "config" =>
        LET file == input.file
            constructible == /\ file.exists /\ file.parses /\ file.mapping
                             /\ "verbose" \notin DOMAIN file.data
        IN  /\ ~constructible => output.config = Defaults
            /\ constructible =>
                   \A f \in DOMAIN Defaults :
                       output.config[f] =
                           IF f \in DOMAIN file.data THEN file.data[f]
                           ELSE Defaults[f]
            /\ Len(output.errors) = Cardinality(RangesViolated(output.config))
            /\ {output.errors[i] : i \in 1..Len(output.errors)} =
                   RangesViolated(output.config)

\* C26 witness: a file with sample_size 0 and min_time_percentage 101 was
\* loaded; the configuration carries both and validate reports both.
C26_Witness ==
    /\ output.kind = "config"
    /\ output.config.sample_size = 0
    /\ output.config.min_time_percentage = RatOf(101)
    /\ output.config.expected_size = Defaults.expected_size
    /\ Len(output.errors) = 2

\* C23: the outputs of a session are written at most once: a stop() or an
\* interpreter exit that finds the session finalized writes nothing, no two
\* outputs belong to one session, and the atexit table never holds more than
\* one handler of the instance.
C23_OutputsAtMostOnce ==
    /\ [](/\ entry.atexit <= 1
          /\ \A i, j \in 1..Len(entry.outputs) :
                 entry.outputs[i].session = entry.outputs[j].session => i = j)
    /\ [][(~entry.active /\ entry'.last \in {"stop", "exit"})
              => entry'.outputs = entry.outputs]_vars

\* C23 witness: two sessions were finalized, each wrote its output, and
\* the program has exited with one handler in its atexit table.
C23_Witness ==
    /\ entry.exited
    /\ entry.session = 2
    /\ Len(entry.outputs) = 2
    /\ entry.atexit = 1

\* C24: start() on an active PipelineProfiler loads no configuration and
\* makes no Profiler, the session stays active with the call counts it had,
\* and every output holds all calls of its session, those made before a
\* repeated start() included.
C24_StartWhileActiveIsNoOp ==
    /\ [](\A i \in 1..Len(entry.outputs) :
             LET o == entry.outputs[i]
                 k == ResolveKey(Frame("A"))
             IN  /\ k \in DOMAIN o.function_stats
                 /\ o.function_stats[k].call_count = o.runs)
    /\ [][(entry.active /\ entry'.last = "start" /\ entry' /= entry) =>
            /\ entry'.active
            /\ entry'.loads = entry.loads
            /\ entry'.created = entry.created
            /\ entry'.config = entry.config
            /\ entry'.session = entry.session
            /\ \A k \in DOMAIN entry.profiler[1].function_stats :
                  /\ k \in DOMAIN entry'.profiler[1].function_stats
                  /\ entry'.profiler[1].function_stats[k].call_count
                        = entry.profiler[1].function_stats[k].call_count]_vars

\* C24 witness: an output of a session in which start() was called again
\* after a call of A, and A was called once more after it.
C24_Witness ==
    \E i \in 1..Len(entry.outputs) :
        /\ entry.outputs[i].restarts >= 1
        /\ entry.outputs[i].before >= 1
        /\ entry.outputs[i].runs > entry.outputs[i].before

\* The average CPU of k in a table of statistics, 0 for a function not in it.
AvgCpuOf(fs, k) == IF k \in DOMAIN fs THEN fs[k].avg_cpu_percent ELSE RatOf(0)

\* The CPU values of the samples in the buffer of k.
BufferedCpu(fs, k) ==
    [i \in 1..Len(BufferOf(fs, k)) |-> BufferOf(fs, k)[i].cpu_percent]

\* C31: a RETURN event that pops f with samples in f's buffer and
\* avg_cpu_percent still 0 sets it to the mean of the CPU values of the
\* buffered samples; avg_cpu_percent changes in no other step, and once it is
\* not 0 no step of the session changes it.
C31_AvgCpuSetOnce ==
    [][\A k \in DOMAIN function_stats \cap DOMAIN function_stats' :
          LET popped == /\ ReturnEvent
                        /\ call_stack /= <<>> /\ Top(call_stack)[1] = k
                        /\ BufferOf(function_stats, k) /= <<>>
              mean == Mean(BufferedCpu(function_stats, k),
                           Len(BufferOf(function_stats, k)))
          IN  /\ AvgCpuOf(function_stats, k) /= RatOf(0)
                    => AvgCpuOf(function_stats', k) = AvgCpuOf(function_stats, k)
              /\ (popped /\ AvgCpuOf(function_stats, k) = RatOf(0))
                    => AvgCpuOf(function_stats', k) = mean
              /\ AvgCpuOf(function_stats', k) /= AvgCpuOf(function_stats, k)
                    => popped]_vars

\* C31 witness: A returned with two samples of different CPU values in its
\* buffer, and its average is their mean.
C31_Witness ==
    /\ active
    /\ last = "return"
    /\ scenario = "deep"
    /\ AvgCpuOf(function_stats, KeyA) = Rat(3, 2)
    /\ BufferOf(function_stats, KeyA) = <<>>

\* The peak memory of k in a table of statistics, 0 for a function not in it.
PeakMemoryOf(fs, k) == IF k \in DOMAIN fs THEN fs[k].peak_memory_mb ELSE 0

\* The largest memory value of the samples in the buffer of k, 0 without one.
RECURSIVE MaxMemory(_)
MaxMemory(samples) ==
    IF samples = <<>> THEN 0
    ELSE Max(samples[Len(samples)].memory_mb, MaxMemory(Pop(samples)))

\* C32: a RETURN event that pops f with samples in f's buffer leaves
\* peak_memory_mb(f) at the maximum of the previous peak and the memory
\* values of all the buffered samples, and peak_memory_mb(f) never decreases
\* in a session.
C32_PeakMemoryIsMaxOfSamples ==
    [][\A k \in DOMAIN function_stats \cap DOMAIN function_stats' :
          /\ (/\ ReturnEvent
               /\ call_stack /= <<>> /\ Top(call_stack)[1] = k
               /\ BufferOf(function_stats, k) /= <<>>)
                 => PeakMemoryOf(function_stats', k) =
                        Max(PeakMemoryOf(function_stats, k),
                            MaxMemory(BufferOf(function_stats, k)))
          /\ PeakMemoryOf(function_stats', k) >= PeakMemoryOf(function_stats, k)]_vars

\* The tracked invocations of k called in the session and not yet returned.
Unreturned(k) ==
    {i \in 1..Len(frames) :
        /\ frames[i].key = k /\ ~frames[i].ign
        /\ frames[i].sess = session /\ session > 0}

\* C33: in the result of stop(), a function has accelerator metrics only if
\* at stop() it had samples in its buffer (a sample taken since its last
\* processed return) and an invocation that had not returned; a function all
\* of whose invocations had returned has none.
C33_GpuMetricsOnlyForOpenCalls ==
    [][(StopStep /\ active) =>
          \A k \in DOMAIN result'.function_stats :
              (\/ result'.function_stats[k].avg_gpu_utilization /= <<>>
               \/ result'.function_stats[k].peak_gpu_memory_mb /= <<>>)
                  => /\ BufferOf(function_stats, k) /= <<>>
                     /\ Unreturned(k) /= {}]_vars

\* C33 witness: stop() was called by the innermost of the nested calls of A,
\* with two samples in A's buffer, and the result has A's accelerator
\* metrics.
C33_Witness ==
    /\ HasResult
    /\ last = "stop"
    /\ Unreturned(KeyA) /= {}
    /\ KeyA \in DOMAIN result.function_stats
    /\ result.function_stats[KeyA].call_count > 200
    /\ result.function_stats[KeyA].avg_gpu_utilization /= <<>>

\* The tracked invocations called since the start() of the session and not
\* yet returned.
OpenTracked ==
    {i \in 1..Len(frames) :
        ~frames[i].ign /\ frames[i].sess = session /\ session > 0}

\* C34: the RETURN event of a frame that was executing when start() was
\* called changes no aggregate and no edge and pops nothing, and the call
\* stack is never deeper than the number of tracked invocations called since
\* start() that have not returned.
C34_EarlierFramesPopNothing ==
    /\ [][(ReturnEvent /\ Top(frames).sess /= session)
             => UNCHANGED <<function_stats, call_edges, call_stack>>]_vars
    /\ [](Len(call_stack) <= Cardinality(OpenTracked))

\* C34 witness: main, which called start(), has returned with the session
\* active, after a tracked call and a call of an ignored function in it.
C34_Witness ==
    /\ hook
    /\ frames = <<>>
    /\ last = "return_empty"
    /\ gIgnCall
    /\ DOMAIN function_stats /= {}

\* C35: whenever a Profiler instance is active, the hook of the process is
\* that instance's callback.
C35_ActiveInstanceOwnsHook ==
    \A i \in 1..2 : pair.profilers[i].active => pair.hook = i

\* The positions in function_stats of the functions extract_hotspots may
\* return: a name that is not blank and does not start with "<", not of the
\* standard library, and an entry in extrapolated_stats.
EligibleItems ==
    {i \in 1..Len(input.items) :
        /\ ~IsBlank(input.items[i].func_key.funcname)
        /\ ~StartsWith(input.items[i].func_key.funcname, "<")
        /\ ~CheckStdlib(input.items[i].func_key)
        /\ input.items[i].func_key \in DOMAIN input.extrapolated_stats}

\* C36: extract_hotspots returns min(top_n, number of eligible functions)
\* entries, each an eligible function and no function twice; with top_n = 0
\* the list is empty.
C36_HotspotCount ==
    output.kind = "hotspots" =>
        /\ Len(output.value) =
               IF input.top_n < Cardinality(EligibleItems) THEN input.top_n
               ELSE Cardinality(EligibleItems)
        /\ \A i \in 1..Len(output.value) :
               \E j \in EligibleItems :
                   output.value[i].func_key = input.items[j].func_key
        /\ \A i, j \in 1..Len(output.value) :
               output.value[i].func_key = output.value[j].func_key => i = j
        /\ input.top_n = 0 => output.value = <<>>

\* C36 witness: of three eligible functions, given with a lambda and a
\* function of the standard library, two were returned for top_n = 2.
C36_Witness ==
    /\ output.kind = "hotspots"
    /\ input.top_n = 2
    /\ Cardinality(EligibleItems) = 3
    /\ Len(input.items) > 3
    /\ Len(output.value) = 2

\* The positions of the functions aggregate_by_module counts: a name that is
\* not blank and does not start with "<", not of the standard library.
CountedItems ==
    {i \in 1..Len(input.items) :
        /\ ~IsBlank(input.items[i].func_key.funcname)
        /\ ~StartsWith(input.items[i].func_key.funcname, "<")
        /\ ~CheckStdlib(input.items[i].func_key)}

\* The projected time of item i, 0 without an entry in extrapolated_stats.
ProjectedOf(i) ==
    IF input.items[i].func_key \in DOMAIN input.extrapolated_stats
    THEN input.extrapolated_stats[input.items[i].func_key].projected_time_ms
    ELSE RatOf(0)

\* C37: aggregate_by_module returns one aggregate for every module name
\* other than "" that has an eligible function and no other; its count and
\* sums are those of the eligible functions of the module, its percentage is
\* 100 times its projected time over the total projected time of the eligible
\* functions, the percentages returned sum to 100 when that total is
\* positive, and the list is in descending order of projected_time_ms.
C37_ModuleAggregates ==
    output.kind = "aggregates" =>
        LET aggs == output.value
            total == RatSumOver(CountedItems,
                                [i \in 1..Len(input.items) |-> ProjectedOf(i)])
            Of(m) == {i \in CountedItems : input.items[i].func_key.module = m}
        IN  /\ {aggs[a].module_name : a \in 1..Len(aggs)} =
                   {input.items[i].func_key.module : i \in CountedItems} \ {""}
            /\ \A a, b \in 1..Len(aggs) :
                   aggs[a].module_name = aggs[b].module_name => a = b
            /\ \A a \in 1..Len(aggs) :
                   LET of == Of(aggs[a].module_name) IN
                   /\ aggs[a].function_count = Cardinality(of)
                   /\ aggs[a].total_calls =
                          SumOver(of, [i \in 1..Len(input.items) |->
                                          input.items[i].stats.call_count])
                   /\ aggs[a].total_time_ms =
                          SumOver(of, [i \in 1..Len(input.items) |->
                                          input.items[i].stats.total_time_ms])
                   /\ aggs[a].projected_time_ms =
                          RatSumOver(of, [i \in 1..Len(input.items) |->
                                             ProjectedOf(i)])
                   /\ RatLess(RatOf(0), total) =>
                          aggs[a].percentage_of_total =
                              RatMul(RatDiv(aggs[a].projected_time_ms, total),
                                     RatOf(100))
            /\ RatLess(RatOf(0), total) =>
                   RatSumOver(1..Len(aggs),
                              [a \in 1..Len(aggs) |-> aggs[a].percentage_of_total])
                       = RatOf(100)
            /\ \A a, b \in 1..Len(aggs) :
                   a < b => ~RatLess(aggs[a].projected_time_ms,
                                     aggs[b].projected_time_ms)

\* The result of stop() extrapolated from a sample of 1 to 2 items.
ExtrapolatedResult ==
    Extrapolate(result, [sample_size |-> 1, expected_size |-> 2])

\* C38: in the extrapolation, with a positive scale factor, of any result
\* the tracer gives, every function's percentage_of_total is at least 0 and
\* at most 100.
C38_PercentageInRange ==
    HasResult =>
        \A k \in DOMAIN ExtrapolatedResult :
            /\ ~RatLess(ExtrapolatedResult[k].percentage_of_total, RatOf(0))
            /\ ~RatLess(RatOf(100), ExtrapolatedResult[k].percentage_of_total)

\* The PipelineProfiler as _finalize leaves it: inactive, the hook removed,
\* profiler and config None.
EntryReset(e) ==
    ~e.active /\ ~e.hook /\ e.profiler = <<>> /\ e.config = <<>>

\* C39: after every stop() and every exit the instance is inactive, without
\* hook, profiler and config None, whether the output generation raised (at
\* the making of the run directory, the serialization or the report), no
\* data was collected or all outputs were written; a session without data
\* writes nothing and raises nothing; and a start() after a finalization
\* that raised begins a new session on a new Profiler.
C39_FinalizeResetsOnFailure ==
    /\ [](entry.last \in {"stop", "exit"} => EntryReset(entry))
    /\ [][(/\ entry.active
            /\ entry'.last \in {"stop", "exit"}
            /\ entry.profiler[1].function_stats = <<>>)
              => /\ entry'.outputs = entry.outputs
                 /\ entry'.made = entry.made
                 /\ ~entry'.raised]_vars
    /\ [][(entry.raised /\ entry'.last = "start")
              => /\ entry'.active /\ entry'.hook
                 /\ entry'.session = entry.session + 1
                 /\ entry'.profiler = <<NewTracer>>
                 /\ entry'.config /= <<>>
                 /\ ~entry'.raised]_vars

\* C39 witness: the serialization of the first session raised after its run
\* directory was made, nothing was written, and start() has begun the second
\* session.
C39_Witness ==
    /\ entry.session = 2
    /\ entry.active
    /\ entry.hook
    /\ entry.made /= {}
    /\ entry.outputs = <<>>

\* C40: no two outputs were written into the same run directory.
C40_RunDirectoriesDistinct ==
    \A i, j \in 1..Len(entry.outputs) :
        entry.outputs[i].dir = entry.outputs[j].dir => i = j

=============================================================================
